---- MODULE Spec2Model ----
(***************************************************************************)
(* A model of the parser-combinator engine of rustre-parser                *)
(* (src/rustre-parser/src/rowan_nom.rs): the cursor `Input`, the           *)
(* accumulator `Children`, and the combinators t, fallible_with, fallible, *)
(* node, root_node, join, many0 and adapter::old_style.                    *)
(*                                                                         *)
(* A combinator is a pure function of the cursor it is given; it is        *)
(* modelled as an operator that computes the value the Rust closure        *)
(* returns.  The state machine is a grammar that owns a cursor and calls   *)
(* combinators on it one after the other.                                  *)
(*                                                                         *)
(* And a model of the lexer of src/src/lexer.rs: Lexer::lex is a scan loop *)
(* over the source text, one step of the model for each of its iterations, *)
(* and Lexer::match_tok the pure function it calls.                        *)
(*                                                                         *)
(* And a model of the error type of src/rustre-parser/src/lib.rs: the      *)
(* constructors of Error and with_context.                                 *)
(***************************************************************************)
EXTENDS Integers, Sequences, FiniteSets, TLC

----------------------------------------------------------------------------
(* Bounds of the model *)

\* how many equations the body of a node has
MaxEquations == 2

\* how many times with_context is called on one Error
MaxContexts == 2

\* longest token slice handed to Input::from
MaxLen == 3

\* how many times the loop of many0 is followed on a cursor that a
\* successful run of its parser left unchanged
MaxStall == 2

\* longest source text handed to Lexer::new
MaxSrcLen == 5

----------------------------------------------------------------------------
(* The language the engine is instantiated with (trait RowanNomLanguage):   *)
(* its kinds, which of them are trivia, its error kind, kind_to_raw.        *)

SigKinds == {"Let", "Ident", "Equal"}

TriviaKinds == {"Whitespace"}

NodeKinds == {"Stmt"}

RootKind == "Root"

KindTable == <<"Let", "Ident", "Equal", "Whitespace", "Stmt", "Root", "Error">>

is_trivia(kind) == kind \in TriviaKinds

get_error_kind == "Error"

\* Lang::kind_to_raw: the kind's discriminant, a rowan::SyntaxKind
kind_to_raw(kind) == (CHOOSE i \in 1..Len(KindTable) : KindTable[i] = kind) - 1

\* Lang::kind_from_raw, its inverse
kind_from_raw(raw) == KindTable[raw + 1]

\* RichToken = (Kind, &str): the tokens a stream is made of
RichTokens ==
    { <<"Let", "let">>, <<"Ident", "x">>, <<"Equal", "=">>,
      <<"Whitespace", "  ">> }

RECURSIVE SeqsUpTo(_, _)
SeqsUpTo(S, n) ==
    IF n = 0 THEN { <<>> }
    ELSE LET shorter == SeqsUpTo(S, n - 1)
         IN  shorter \cup { <<x>> \o s : x \in S, s \in { q \in shorter : Len(q) = n - 1 } }

TokenStreams == SeqsUpTo(RichTokens, MaxLen)

----------------------------------------------------------------------------
(* struct Input and its methods *)

Input(src_pos, trivia_tokens, trivia_tokens_text_len, tokens) ==
    [ src_pos |-> src_pos,
      trivia_tokens |-> trivia_tokens,
      trivia_tokens_text_len |-> trivia_tokens_text_len,
      tokens |-> tokens ]

\* slice.iter().position(predicate).unwrap_or(slice.len()); slice.split_at(idx)
\* (the closure `predicate` is a function on the elements of the slice)
split_slice_predicate(slice, predicate) ==
    LET hits == { i \in 1..Len(slice) : predicate[slice[i]] }
        non_trivia_idx ==
            IF hits = {} THEN Len(slice)
            ELSE (CHOOSE i \in hits : \A j \in hits : i <= j) - 1
    IN  << SubSeq(slice, 1, non_trivia_idx),
           SubSeq(slice, non_trivia_idx + 1, Len(slice)) >>

\* iter().map(|(_, s)| s.len()).sum()
RECURSIVE text_len_sum(_)
text_len_sum(toks) ==
    IF toks = <<>> THEN 0 ELSE Len(toks[1][2]) + text_len_sum(Tail(toks))

advance_trivia(self) ==
    LET NotTrivia == [ tok \in { self.tokens[i] : i \in 1..Len(self.tokens) } |->
                           ~is_trivia(tok[1]) ]
        parts == split_slice_predicate(self.tokens, NotTrivia)
        trivia_tokens == parts[1]
        rest_tokens == parts[2]
    IN  Input(self.src_pos, trivia_tokens, text_len_sum(trivia_tokens), rest_tokens)

\* the panic of next and next_raw on an empty input
Panic == [ panic |-> "empty input" ]

\* next without its call of advance_trivia
next_without_advance_trivia(self) ==
    IF self.tokens = <<>> THEN Panic
    ELSE Input(self.src_pos + self.trivia_tokens_text_len + Len(Head(self.tokens)[2]),
               <<>>, 0, Tail(self.tokens))

next(self) ==
    IF self.tokens = <<>> THEN Panic
    ELSE LET first == Head(self.tokens)
             rest == Tail(self.tokens)
         IN  advance_trivia(
                 Input(self.src_pos + self.trivia_tokens_text_len + Len(first[2]),
                       <<>>, 0, rest))

\* next_raw leaving trivia_tokens_text_len as it is
next_raw_keeping_text_len(self) ==
    IF self.trivia_tokens # <<>> THEN
        LET text_len == Len(Head(self.trivia_tokens)[2])
        IN  Input(self.src_pos + text_len,
                  Tail(self.trivia_tokens),
                  self.trivia_tokens_text_len,
                  self.tokens)
    ELSE IF self.tokens # <<>> THEN
        Input(self.src_pos + Len(Head(self.tokens)[2]),
              self.trivia_tokens,
              self.trivia_tokens_text_len,
              Tail(self.tokens))
    ELSE Panic

next_raw(self) ==
    IF self.trivia_tokens # <<>> THEN
        LET text_len == Len(Head(self.trivia_tokens)[2])
        IN  Input(self.src_pos + text_len,
                  Tail(self.trivia_tokens),
                  self.trivia_tokens_text_len - text_len,
                  self.tokens)
    ELSE IF self.tokens # <<>> THEN
        Input(self.src_pos + Len(Head(self.tokens)[2]),
              self.trivia_tokens,
              self.trivia_tokens_text_len,
              Tail(self.tokens))
    ELSE Panic

\* impl From<&[RichToken]> for Input
Input_from(toks) == advance_trivia(Input(0, <<>>, 0, toks))

input_len(self) == Len(self.trivia_tokens) + Len(self.tokens)

----------------------------------------------------------------------------
(* rowan's green tree, and struct Children *)

GreenToken(raw_kind, text) ==
    [ tag |-> "Token", kind |-> raw_kind, text |-> text, children |-> <<>> ]

GreenNode(raw_kind, children) ==
    [ tag |-> "Node", kind |-> raw_kind, text |-> "", children |-> children ]

Children(errors, inner) == [ errors |-> errors, inner |-> inner ]

empty == Children(<<>>, <<>>)

from_tokens(iter) ==
    Children(<<>>,
             [ i \in 1..Len(iter) |-> GreenToken(kind_to_raw(iter[i][1]), iter[i][2]) ])

\* from_err building no error node
from_err_without_node(error) == Children(<<error>>, <<>>)

from_err(error) ==
    Children(<<error>>, << GreenNode(kind_to_raw(get_error_kind), <<>>) >>)

from_rowan_children(children, errors) == Children(errors, children)

\* add putting the other accumulator's errors in front
add_errors_in_front(self, other) ==
    Children(other.errors \o self.errors, self.inner \o other.inner)

\* add dropping the other accumulator's errors
add_without_errors(self, other) ==
    Children(self.errors, self.inner \o other.inner)

add(self, other) ==
    Children(self.errors \o other.errors, self.inner \o other.inner)

\* into_node losing the errors
into_node_without_errors(self, kind) ==
    Children(<<>>, << GreenNode(kind, self.inner) >>)

into_node(self, kind) ==
    Children(self.errors, << GreenNode(kind, self.inner) >>)

----------------------------------------------------------------------------
(* Errors and results *)

\* RowanNomError::from_message
from_message(message) == [ msg |-> message ]

\* nom::Err::Error(e)
NomError(e) == [ variant |-> "Error", e |-> e ]

\* A result carries, besides the value the Rust closure returns, the ghost
\* field `ran`: the sub-parsers that were called while it was computed, each
\* with its place in the combinator expression and the cursor it was given.
Ok(input, out, ran) ==
    [ status |-> "ok", input |-> input, out |-> out, ran |-> ran ]

Err(e, ran) == [ status |-> "err", err |-> e, ran |-> ran ]

\* the call does not return
Diverge(ran) == [ status |-> "diverge", ran |-> ran ]

----------------------------------------------------------------------------
(* The combinators *)

\* t emitting the matched token without the buffered trivia
t_without_trivia(token, input) ==
    IF input.tokens # <<>> /\ Head(input.tokens)[1] = token
    THEN Ok(next(input), from_tokens(<< Head(input.tokens) >>), <<>>)
    ELSE Err(NomError(from_message(IF input.tokens # <<>> THEN "unexpected token"
                                   ELSE "unexpected eof")), <<>>)

\* t reporting the end of input as an unexpected token
t_one_message(token, input) ==
    IF input.tokens # <<>> /\ Head(input.tokens)[1] = token
    THEN Ok(next(input),
            from_tokens(input.trivia_tokens \o << Head(input.tokens) >>), <<>>)
    ELSE Err(NomError(from_message("unexpected token")), <<>>)

t(token, input) ==
    IF input.tokens # <<>> THEN
        LET current_token == Head(input.tokens)[1]
            current_token_str == Head(input.tokens)[2]
        IN  IF current_token = token THEN
                LET trivia == input.trivia_tokens
                IN  Ok(next(input),
                       from_tokens(trivia \o << <<current_token, current_token_str>> >>),
                       <<>>)
            ELSE Err(NomError(from_message("unexpected token")), <<>>)
    ELSE Err(NomError(from_message("unexpected eof")), <<>>)

\* the inner errors IE the combinators make
InnerErrors ==
    { from_message(m) : m \in { "unexpected token", "unexpected eof", "parser failed" } }

\* Into::into, the conversion of fallible: E: From<IE>
into == [ e \in InnerErrors |-> [ from |-> e ] ]

\* The combinator expressions: t(kind), fallible(p), node(kind, p),
\* join((p1, ..., pn)) and many0(p)
tP(kind) == [ op |-> "t", kind |-> kind, ps |-> <<>> ]

fallibleP(p) == [ op |-> "fallible", kind |-> "", ps |-> <<p>> ]

nodeP(kind, p) == [ op |-> "node", kind |-> kind, ps |-> <<p>> ]

joinP(ps) == [ op |-> "join", kind |-> "", ps |-> ps ]

many0P(p) == [ op |-> "many0", kind |-> "", ps |-> <<p>> ]

\* parser.parse(input) of the sub-parser at place `at` of the expression
RECURSIVE Run(_, _, _)

\* the ghost record of a call
Called(at, input, r) ==
    [ r EXCEPT !.ran = << [ at |-> at, input |-> input ] >> \o @ ]

\* fallible_with letting the parser's error through
fallible_with_propagating(parser, convert, input, at) ==
    Run(parser, input, at \o <<1>>)

fallible_with(parser, convert, input, at) ==
    LET r == Run(parser, input, at \o <<1>>)
    IN  IF r.status = "err" THEN
            IF r.err.variant = "Error"
            THEN Ok(input, from_err(convert[r.err.e]), r.ran)
            ELSE r
        ELSE r

fallible(parser, input, at) == fallible_with(parser, into, input, at)

node(kind, parser, input, at) ==
    LET syntax == kind_to_raw(kind)
        r == Run(parser, input, at \o <<1>>)
    IN  IF r.status = "ok"
        THEN Ok(r.input, into_node(r.out, syntax), r.ran)
        ELSE r

\* SyntaxNode::new_root
new_root(green) == [ green |-> green ]

root_node(kind, parser, input, at) ==
    LET syntax == kind_to_raw(kind)
        r == Run(parser, input, at \o <<1>>)
    IN  IF r.status = "ok"
        THEN Ok(r.input,
                << new_root(GreenNode(syntax, r.out.inner)), r.out.errors >>,
                r.ran)
        ELSE r

\* parse_rest going on with the next parser after a failure
RECURSIVE parse_rest_past_failure(_, _, _, _, _, _)
parse_rest_past_failure(self, i, input, children, ran, at) ==
    IF i > Len(self) THEN Ok(input, children, ran)
    ELSE LET r == Run(self[i], input, at \o <<i>>)
         IN  IF r.status = "ok"
             THEN parse_rest_past_failure(self, i + 1, r.input, add(children, r.out),
                                          ran \o r.ran, at)
             ELSE parse_rest_past_failure(self, i + 1, input, children,
                                          ran \o r.ran, at)

\* the steps `let (input, children2) = $arg.parse(input)?; children.add(children2);`
\* of Joignable::parse, from the i-th parser of the tuple on
RECURSIVE parse_rest(_, _, _, _, _, _)
parse_rest(self, i, input, children, ran, at) ==
    IF i > Len(self) THEN Ok(input, children, ran)
    ELSE LET r == Run(self[i], input, at \o <<i>>)
         IN  IF r.status = "ok"
             THEN parse_rest(self, i + 1, r.input, add(children, r.out),
                             ran \o r.ran, at)
             ELSE [ r EXCEPT !.ran = ran \o @ ]

\* Joignable::parse of the tuple `self` (impl_tuple!)
Joignable_parse(self, input, at) ==
    LET r == Run(self[1], input, at \o <<1>>)
    IN  IF r.status = "ok"
        THEN parse_rest(self, 2, r.input, r.out, r.ran, at)
        ELSE r

join(parsers, input, at) == Joignable_parse(parsers, input, at)

\* the loop's body keeping the last run's accumulator only
many0_iter_overwrites(parser, input, first, ran, at) ==
    LET r == Run(parser, input, at \o <<1>>)
    IN  [ loop |-> IF r.status = "ok" THEN "again"
                   ELSE IF r.status = "err" THEN "exit" ELSE "diverge",
          input |-> IF r.status = "ok" THEN r.input ELSE input,
          first |-> IF r.status = "ok" THEN r.out ELSE first,
          ran |-> ran \o r.ran ]

\* the loop's body without `input = new_input`
many0_iter_keeps_input(parser, input, first, ran, at) ==
    LET r == Run(parser, input, at \o <<1>>)
    IN  [ loop |-> IF r.status = "ok" THEN "again"
                   ELSE IF r.status = "err" THEN "exit" ELSE "diverge",
          input |-> input,
          first |-> IF r.status = "ok" THEN add(first, r.out) ELSE first,
          ran |-> ran \o r.ran ]

\* One evaluation of `while let Ok((new_input, new_children)) =
\* parser.parse(input.clone())` and, when it matches, of the loop's body.
many0_iter(parser, input, first, ran, at) ==
    LET r == Run(parser, input, at \o <<1>>)
    IN  IF r.status = "ok"
        THEN [ loop |-> "again", input |-> r.input, first |-> add(first, r.out),
               ran |-> ran \o r.ran ]
        ELSE IF r.status = "err"
        THEN [ loop |-> "exit", input |-> input, first |-> first,
               ran |-> ran \o r.ran ]
        ELSE [ loop |-> "diverge", input |-> input, first |-> first,
               ran |-> ran \o r.ran ]

\* The while loop of many0.  The parser is a pure function of the cursor: when
\* a run succeeds and leaves the cursor as it was, the next evaluation is the
\* same one, and the loop has no other exit: the call never returns.
RECURSIVE many0_loop(_, _, _, _, _)
many0_loop(parser, input, first, ran, at) ==
    LET s == many0_iter(parser, input, first, ran, at)
    IN  IF s.loop = "again" THEN
            IF s.input = input THEN Diverge(s.ran)
            ELSE many0_loop(parser, s.input, s.first, s.ran, at)
        ELSE IF s.loop = "exit" THEN Ok(s.input, s.first, s.ran)
        ELSE Diverge(s.ran)

\* `let (mut input, mut first) = match parser.parse(input.clone()) { Ok(x) => x,
\* Err(_) => return Ok((input, Children::empty())) }` at the head of many0
many0_head(parser, input, at) ==
    LET r == Run(parser, input, at \o <<1>>)
    IN  IF r.status = "ok"
        THEN [ loop |-> "again", input |-> r.input, first |-> r.out, ran |-> r.ran ]
        ELSE IF r.status = "err"
        THEN [ loop |-> "exit", input |-> input, first |-> empty, ran |-> r.ran ]
        ELSE [ loop |-> "diverge", input |-> input, first |-> empty, ran |-> r.ran ]

many0(parser, input, at) ==
    LET s == many0_head(parser, input, at)
    IN  IF s.loop = "again" THEN many0_loop(parser, s.input, s.first, s.ran, at)
        ELSE IF s.loop = "exit" THEN Ok(s.input, s.first, s.ran)
        ELSE Diverge(s.ran)

Run(p, input, at) ==
    Called(at, input,
           CASE p.op = "t" -> t(p.kind, input)
             [] p.op = "fallible" -> fallible(p.ps[1], input, at)
             [] p.op = "node" -> node(p.kind, p.ps[1], input, at)
             [] p.op = "join" -> join(p.ps, input, at)
             [] p.op = "many0" -> many0(p.ps[1], input, at))

\* `for _ in 0..consumed { input2.next_raw(); }`
RECURSIVE next_raw_times(_, _)
next_raw_times(input, consumed) ==
    IF consumed = 0 THEN input ELSE next_raw_times(next_raw(input), consumed - 1)

\* adapter::old_style(f).  The old-style parser function f works on
\* crate::parser::Parser, whose `tokens` are the cursor's trivia and tokens;
\* what is known of a run of f is how many of them it popped, what it put in
\* the builder and its errors, and the bool it returned.
old_style(f, input) ==
    IF f.result THEN
        LET consumed == Len(input.tokens) + Len(input.trivia_tokens)
                        - (Len(input.trivia_tokens \o input.tokens) - f.popped)
            input2 == next_raw_times(input, consumed)
        IN  Ok(input2, from_rowan_children(f.built, f.errors), <<>>)
    ELSE Err(NomError(from_message("parser failed")), <<>>)

----------------------------------------------------------------------------
(* The lexer (src/src/lexer.rs).  A source text is a string of bytes, its  *)
(* UTF-8 encoding; &s[a..b] is the slice of bytes a..b-1.  An ASCII         *)
(* character is one byte and is written as itself.  The degree sign U+00B0  *)
(* is the two bytes C2 B0, written here as the lead byte "@" and the        *)
(* continuation byte "~": it stands for the characters of more than one     *)
(* byte, and it is neither a letter nor a digit.                            *)

\* &s[a..b]
Slice(s, a, b) == SubSeq(s, a + 1, b)

\* str::is_char_boundary: the start, the end, and every byte that is not a
\* continuation byte
is_char_boundary(s, index) ==
    \/ index = 0
    \/ index = Len(s)
    \/ index < Len(s) /\ SubSeq(s, index + 1, index + 1) # "~"

\* a slice &s[a..b] panics with a > b or b > s.len(), and with a or b inside
\* a character
SliceInRange(s, a, b) ==
    a <= b /\ b <= Len(s) /\ is_char_boundary(s, a) /\ is_char_boundary(s, b)

\* the strings of at most n characters of `chars`
RECURSIVE StringsOver(_, _)
StringsOver(chars, n) ==
    IF n = 0 THEN { "" }
    ELSE { "" } \cup { s \o c : s \in StringsOver(chars, n - 1), c \in chars }

\* The source texts lexed: every string of at most MaxSrcLen characters over
\* the characters of one group of rules of the lexer (block comments, which
\* need an opener, a closer of the other style and a closer, one more).
SourceClasses ==
    { [ chars |-> { "\"", "a", "\n", "-" }, max |-> MaxSrcLen ],
      [ chars |-> { "/", "*", "(", ")" }, max |-> MaxSrcLen + 1 ],
      [ chars |-> { "-", "\n", " ", "a" }, max |-> MaxSrcLen ],
      [ chars |-> { "-", ">", "<", "=" }, max |-> MaxSrcLen ],
      [ chars |-> { ".", "*", "1", "-" }, max |-> MaxSrcLen ],
      [ chars |-> { "i", "f", "n", " " }, max |-> MaxSrcLen ],
      [ chars |-> { "@~", "a", " ", "-" }, max |-> MaxSrcLen ] }

ClassSources == UNION { StringsOver(c.chars, c.max) : c \in SourceClasses }

File == "main.lus"

\* struct Location, struct Span, struct Spanned (crate::location)
Location(line, col, pos) == [ line |-> line, col |-> col, pos |-> pos ]

Span(file, start, end) == [ file |-> file, start |-> start, end |-> end ]

Spanned(span, item) == [ span |-> span, item |-> item ]

\* enum TokInfo: the variants without data, and IConst, RConst, Ident, Str
TokInfo(variant) == [ variant |-> variant ]

IConst(value) == [ variant |-> "IConst", value |-> value ]

RConst(value) == [ variant |-> "RConst", value |-> value ]

Ident(text) == [ variant |-> "Ident", text |-> text ]

Str(text) == [ variant |-> "Str", text |-> text ]

\* enum Grammar
Grammar_Main == [ tag |-> "Main", end |-> "" ]

Grammar_Str == [ tag |-> "Str", end |-> "" ]

Grammar_InlineComment == [ tag |-> "InlineComment", end |-> "" ]

Grammar_Comment(end) == [ tag |-> "Comment", end |-> end ]

\* enum Error, and Result
UnclosedStr == "UnclosedStr"

UnclosedComment == "UnclosedComment"

Result_Ok(value) == [ variant |-> "Ok", value |-> value ]

Result_Err(error) == [ variant |-> "Err", error |-> error ]

None == [ some |-> FALSE ]

Some(value) == [ some |-> TRUE, value |-> value ]

\* Lexer::new
Lexer_new(file, src) == [ file |-> file, src |-> src ]

\* Lexer::token with the end of the token as the start of its span too
token_without_start(file, line, col, pos, len, info) ==
    Spanned(Span(file,
                 Location(line, col, pos),
                 Location(line, col, pos)),
            info)

\* Lexer::token
token(file, line, col, pos, len, info) ==
    Spanned(Span(file,
                 Location(line, col - len, pos - len),
                 Location(line, col, pos)),
            info)

\* the string patterns of match_tok and the variant each one makes
Literals ==
    "extern" :> "Extern" @@ "unsafe" :> "Unsafe" @@ "and" :> "And" @@
    "assert" :> "Assert" @@ "bool" :> "Bool" @@ "const" :> "Const" @@
    "current" :> "Current" @@ "div" :> "Div" @@ "else" :> "Else" @@
    "enum" :> "Enum" @@ "function" :> "Function" @@ "false" :> "False" @@
    "if" :> "If" @@ "int" :> "Int" @@ "let" :> "Let" @@ "mod" :> "Mod" @@
    "node" :> "Node" @@ "not" :> "Not" @@ "operator" :> "Operator" @@
    "or" :> "Or" @@ "nor" :> "Nor" @@ "fby" :> "FBy" @@ "pre" :> "Pre" @@
    "real" :> "Real" @@ "returns" :> "Returns" @@ "step" :> "Step" @@
    "struct" :> "Struct" @@ "tel" :> "Tel" @@ "type" :> "Type" @@
    "then" :> "Then" @@ "true" :> "True" @@ "var" :> "Var" @@
    "when" :> "When" @@ "with" :> "With" @@ "xor" :> "Xor" @@
    "model" :> "Model" @@ "package" :> "Package" @@ "needs" :> "Needs" @@
    "provides" :> "Provides" @@ "uses" :> "Uses" @@ "is" :> "Is" @@
    "body" :> "Body" @@ "end" :> "End" @@ "include" :> "Include" @@
    "merge" :> "Merge" @@ "->" :> "Arrow" @@ "=>" :> "Impl" @@
    "<=" :> "Lte" @@ "<>" :> "Neq" @@ ">=" :> "Gte" @@ ".." :> "CDots" @@
    "**" :> "Power" @@ "<<" :> "OpenStaticPar" @@ ">>" :> "CloseStaticPar" @@
    "+" :> "Plus" @@ "^" :> "Hat" @@ "#" :> "Sharp" @@ "-" :> "Minus" @@
    "/" :> "Slash" @@ "%" :> "Percent" @@ "*" :> "Star" @@ "|" :> "Bar" @@
    "=" :> "Equal" @@ "." :> "Dot" @@ "," :> "Coma" @@ ";" :> "Semicolon" @@
    ":" :> "Colon" @@ "(" :> "OpenPar" @@ ")" :> "ClosePar" @@
    "{" :> "OpenBrace" @@ "}" :> "CloseBrace" @@ "[" :> "OpenBracket" @@
    "]" :> "CloseBracket" @@ "<" :> "Lt" @@ ">" :> "Gt"

DecDigits == { "0", "1", "2", "3", "4", "5", "6", "7", "8", "9" }

UpperCase == "ABCDEFGHIJKLMNOPQRSTUVWXYZ"

LowerCase == "abcdefghijklmnopqrstuvwxyz"

CharsOf(s) == { SubSeq(s, i, i) : i \in 1..Len(s) }

AllIn(s, chars) == \A i \in 1..Len(s) : SubSeq(s, i, i) \in chars

\* the patterns of match_tok that are words: the keywords
Keywords == { k \in DOMAIN Literals : AllIn(k, CharsOf(LowerCase)) }

\* More source texts: every keyword with a letter or digit or more after it
\* (as "functional" in the tests).
KeywordSources ==
    { k \o s : k \in Keywords,
               s \in StringsOver({ "e", "l", "1" }, MaxSrcLen - 3) \ { "" } }

\* the operators of arithmetic, and unsigned integer literals
ArithmeticOperators == { "+", "-", "*", "/", "%" }

Operands == StringsOver({ "1", "2" }, MaxSrcLen - 3) \ { "" }

\* More source texts: an operator between two unsigned integer literals, with
\* and without spaces around it (as "12 + 3" and "42*7" in the tests).
OperatorSources ==
    { a \o sp \o op \o sp \o b :
        a \in Operands, b \in Operands, op \in ArithmeticOperators, sp \in { "", " " } }

Sources == ClassSources \cup KeywordSources \cup OperatorSources

\* the letters, and the lowercase letter of each uppercase one
UpperChars == CharsOf(UpperCase)

LowerChars == CharsOf(LowerCase)

LowerOf ==
    [ c \in UpperChars |->
        LET i == CHOOSE k \in 1..Len(UpperCase) : SubSeq(UpperCase, k, k) = c
        IN  SubSeq(LowerCase, i, i) ]

AlphaNumerics == UpperChars \cup LowerChars \cup DecDigits

DigitValues == [ c \in DecDigits |-> CHOOSE d \in 0..9 : SubSeq("0123456789", d + 1, d + 1) = c ]

DigitValue(c) == DigitValues[c]

\* the number a run of decimal digits writes
RECURSIVE DigitsValue(_)
DigitsValue(s) ==
    IF s = "" THEN 0
    ELSE 10 * DigitsValue(SubSeq(s, 1, Len(s) - 1)) + DigitValue(SubSeq(s, Len(s), Len(s)))

\* str::to_ascii_lowercase
RECURSIVE to_ascii_lowercase(_)
to_ascii_lowercase(s) ==
    IF s = "" THEN ""
    ELSE LET c == SubSeq(s, 1, 1)
             lc == IF c \in UpperChars THEN LowerOf[c] ELSE c
         IN  lc \o to_ascii_lowercase(SubSeq(s, 2, Len(s)))

ParseError == [ ok |-> FALSE ]

Parsed(value) == [ ok |-> TRUE, value |-> value ]

HasSign(s) == Len(s) >= 1 /\ SubSeq(s, 1, 1) \in { "+", "-" }

Unsigned(s) == IF HasSign(s) THEN SubSeq(s, 2, Len(s)) ELSE s

\* str::parse::<i64>: an optional sign and one decimal digit or more.  A run
\* of 18 digits is below 2^63; the overflow check of a longer run is out of
\* reach of the sources of the model.
parse_i64(s) ==
    LET digits == Unsigned(s)
    IN  IF digits = "" \/ ~AllIn(digits, DecDigits) \/ Len(digits) > 18
        THEN ParseError
        ELSE Parsed(IF HasSign(s) /\ SubSeq(s, 1, 1) = "-"
                    THEN 0 - DigitsValue(digits) ELSE DigitsValue(digits))

\* the index of the first character of s that is in chars, 0 when none is
IndexOf(s, chars) ==
    LET at == { i \in 1..Len(s) : SubSeq(s, i, i) \in chars }
    IN  IF at = {} THEN 0 ELSE CHOOSE i \in at : \A j \in at : i <= j

\* mantissa * 10^exp without trailing zeros in the mantissa
RECURSIVE Normalised(_, _, _)
Normalised(neg, mantissa, exp) ==
    IF mantissa = 0 THEN [ class |-> "finite", neg |-> FALSE, mantissa |-> 0, exp |-> 0 ]
    ELSE IF mantissa % 10 = 0 THEN Normalised(neg, mantissa \div 10, exp + 1)
    ELSE [ class |-> "finite", neg |-> neg, mantissa |-> mantissa, exp |-> exp ]

\* str::parse::<f64>.  The text, lowercased, is
\*   Sign? ( 'inf' | 'infinity' | 'nan' | Number ),
\*   Number ::= ( Digit+ | Digit+ '.' Digit* | Digit* '.' Digit+ ) Exp?,
\*   Exp ::= 'e' Sign? Digit+.
\* The value is kept as a decimal; the sources of the model are too short for
\* two decimals to round to the same f64.
parse_f64(s) ==
    LET neg == HasSign(s) /\ SubSeq(s, 1, 1) = "-"
        body == to_ascii_lowercase(Unsigned(s))
        e == IndexOf(body, { "e" })
        number == IF e = 0 THEN body ELSE SubSeq(body, 1, e - 1)
        exp == IF e = 0 THEN "" ELSE SubSeq(body, e + 1, Len(body))
        dot == IndexOf(number, { "." })
        int == IF dot = 0 THEN number ELSE SubSeq(number, 1, dot - 1)
        frac == IF dot = 0 THEN "" ELSE SubSeq(number, dot + 1, Len(number))
        exp_value == IF e = 0 THEN 0
                     ELSE IF HasSign(exp) /\ SubSeq(exp, 1, 1) = "-"
                     THEN 0 - DigitsValue(Unsigned(exp))
                     ELSE DigitsValue(Unsigned(exp))
    IN  IF body \in { "inf", "infinity" }
        THEN Parsed([ class |-> "infinite", neg |-> neg, mantissa |-> 0, exp |-> 0 ])
        ELSE IF body = "nan"
        THEN Parsed([ class |-> "nan", neg |-> neg, mantissa |-> 0, exp |-> 0 ])
        ELSE IF /\ AllIn(int, DecDigits) /\ AllIn(frac, DecDigits)
                /\ int \o frac # ""
                /\ e # 0 => (Unsigned(exp) # "" /\ AllIn(Unsigned(exp), DecDigits))
        THEN Parsed(Normalised(neg, DigitsValue(int \o frac), exp_value - Len(frac)))
        ELSE ParseError

\* char::is_alphanumeric, on the one-byte characters
is_alphanumeric(c) == c \in AlphaNumerics

\* Lexer::match_tok
\* match_tok without its last pattern, the one of identifiers
match_tok_without_ident(file, line, col, pos, src) ==
    LET len == Len(src)
        pos_end == pos + len
        col_end == col + len
    IN  IF src \in DOMAIN Literals
        THEN Some(token(file, line, col_end, pos_end, len, TokInfo(Literals[src])))
        ELSE IF parse_i64(src).ok
        THEN Some(token(file, line, col_end, pos_end, len, IConst(parse_i64(src).value)))
        ELSE IF parse_f64(src).ok
        THEN Some(token(file, line, col_end, pos_end, len, RConst(parse_f64(src).value)))
        ELSE None

match_tok(file, line, col, pos, src) ==
    LET len == Len(src)
        pos_end == pos + len
        col_end == col + len
    IN  IF src \in DOMAIN Literals
        THEN Some(token(file, line, col_end, pos_end, len, TokInfo(Literals[src])))
        ELSE IF parse_i64(src).ok
        THEN Some(token(file, line, col_end, pos_end, len, IConst(parse_i64(src).value)))
        ELSE IF parse_f64(src).ok
        THEN Some(token(file, line, col_end, pos_end, len, RConst(parse_f64(src).value)))
        ELSE IF \A i \in 1..Len(src) : is_alphanumeric(SubSeq(src, i, i))
        THEN Some(token(file, line, col_end, pos_end, len, Ident(src)))
        ELSE None

\* The locals of Lexer::lex when the scan loop is entered
lex_begin(self) ==
    [ self |-> self,
      total_len |-> Len(self.src),
      tokens |-> <<>>,
      end |-> Len(self.src),
      grammar |-> Grammar_Main,
      pos |-> 0,
      line |-> 1,
      col |-> 0,
      panicked |-> FALSE ]

\* a slice out of range: the thread panics
SlicePanic(l) == [ l EXCEPT !.panicked = TRUE ]

\* the arm Grammar::Main trying the first character of the window alone
lex_Main_one_char(l) ==
    LET tok_str == Slice(l.self.src, l.pos, l.pos + 1)
        tok == match_tok(l.self.file, l.line, l.col, l.pos, tok_str)
    IN  IF tok_str = "\"" THEN [ l EXCEPT !.grammar = Grammar_Str ]
        ELSE IF tok.some
        THEN [ l EXCEPT !.tokens = Append(@, tok.value),
                        !.pos = l.pos + 1,
                        !.end = l.total_len ]
        ELSE [ l EXCEPT !.end = l.pos ]

\* the arm Grammar::Main of the loop's match
lex_Main(l) ==
    IF ~SliceInRange(l.self.src, l.pos, l.end) THEN SlicePanic(l)
    ELSE
    LET tok_str == Slice(l.self.src, l.pos, l.end)
    IN  IF tok_str = "\"" THEN [ l EXCEPT !.grammar = Grammar_Str ]
        ELSE IF tok_str = "--" THEN [ l EXCEPT !.grammar = Grammar_InlineComment ]
        ELSE IF tok_str = "/*" THEN [ l EXCEPT !.grammar = Grammar_Comment("/") ]
        ELSE IF tok_str = "(*" THEN [ l EXCEPT !.grammar = Grammar_Comment(")") ]
        ELSE LET tok == match_tok(l.self.file, l.line, l.col, l.pos, tok_str)
             IN  IF tok.some
                 THEN [ l EXCEPT !.tokens = Append(@, tok.value),
                                 !.pos = l.end,
                                 !.end = l.total_len ]
                 ELSE [ l EXCEPT !.end = @ - 1 ]

\* the inner loop of the arm Grammar::Str
RECURSIVE str_scan(_, _, _, _)
str_scan(l, str_end, added_lines, added_cols) ==
    IF str_end + 1 < l.total_len /\ ~SliceInRange(l.self.src, str_end, str_end + 1)
    THEN [ str_end |-> str_end, added_lines |-> added_lines, added_cols |-> added_cols,
           panicked |-> TRUE ]
    ELSE IF str_end + 1 < l.total_len /\ Slice(l.self.src, str_end, str_end + 1) # "\""
    THEN IF Slice(l.self.src, str_end, str_end + 1) = "\n"
         THEN str_scan(l, str_end + 1, added_lines + 1, 0)
         ELSE str_scan(l, str_end + 1, added_lines, added_cols + 1)
    ELSE [ str_end |-> str_end, added_lines |-> added_lines, added_cols |-> added_cols,
           panicked |-> FALSE ]

\* the arm Grammar::Str keeping the opening quote in the token's text
lex_Str_with_quote(l) ==
    LET scan == str_scan(l, l.pos + 1, 0, 0)
        str_end == scan.str_end
        pushed ==
            [ l EXCEPT
                !.tokens = Append(@,
                    Spanned(Span(l.self.file,
                                 Location(l.line, l.col, l.pos + 1),
                                 Location(l.line + scan.added_lines,
                                          l.col + scan.added_cols, str_end)),
                            Str(Slice(l.self.src, l.pos, str_end)))),
                !.pos = str_end + 1,
                !.end = l.total_len,
                !.line = @ + scan.added_lines,
                !.col = @ + scan.added_cols ]
    IN  IF scan.panicked \/ ~SliceInRange(l.self.src, l.pos, str_end) THEN SlicePanic(l)
        ELSE IF pushed.pos < l.total_len THEN [ pushed EXCEPT !.grammar = Grammar_Main ]
        ELSE IF ~SliceInRange(l.self.src, str_end, str_end + 1) THEN SlicePanic(pushed)
        ELSE IF Slice(l.self.src, str_end, str_end + 1) = "\""
        THEN [ pushed EXCEPT !.grammar = Grammar_Main ]
        ELSE pushed

\* the arm Grammar::Str
lex_Str(l) ==
    LET scan == str_scan(l, l.pos + 1, 0, 0)
        str_end == scan.str_end
        pushed ==
            [ l EXCEPT
                !.tokens = Append(@,
                    Spanned(Span(l.self.file,
                                 Location(l.line, l.col, l.pos + 1),
                                 Location(l.line + scan.added_lines,
                                          l.col + scan.added_cols, str_end)),
                            Str(Slice(l.self.src, l.pos + 1, str_end)))),
                !.pos = str_end + 1,
                !.end = l.total_len,
                !.line = @ + scan.added_lines,
                !.col = @ + scan.added_cols ]
    IN  IF scan.panicked \/ ~SliceInRange(l.self.src, l.pos + 1, str_end)
        THEN SlicePanic(l)
        ELSE IF pushed.pos < l.total_len THEN [ pushed EXCEPT !.grammar = Grammar_Main ]
        ELSE IF ~SliceInRange(l.self.src, str_end, str_end + 1) THEN SlicePanic(pushed)
        ELSE IF Slice(l.self.src, str_end, str_end + 1) = "\""
        THEN [ pushed EXCEPT !.grammar = Grammar_Main ]
        ELSE pushed

\* the inner loop of the arm Grammar::Comment(end)
RECURSIVE comment_scan(_, _, _)
comment_scan(l, end, comm_end) ==
    IF comm_end + 1 < l.total_len /\ ~SliceInRange(l.self.src, comm_end, comm_end + 2)
    THEN [ l |-> SlicePanic(l), comm_end |-> comm_end ]
    ELSE IF comm_end + 1 < l.total_len
            /\ Slice(l.self.src, comm_end, comm_end + 2) # "*" \o end
            /\ ~SliceInRange(l.self.src, comm_end, comm_end + 1)
    THEN [ l |-> SlicePanic(l), comm_end |-> comm_end ]
    ELSE IF comm_end + 1 < l.total_len
            /\ Slice(l.self.src, comm_end, comm_end + 2) # "*" \o end
    THEN comment_scan(IF Slice(l.self.src, comm_end, comm_end + 1) = "\n"
                      THEN [ l EXCEPT !.col = 0, !.line = @ + 1 ]
                      ELSE [ l EXCEPT !.col = @ + 1 ],
                      end, comm_end + 1)
    ELSE [ l |-> l, comm_end |-> comm_end ]

\* the arm Grammar::Comment(end)
lex_Comment(l) ==
    LET scan == comment_scan(l, l.grammar.end, l.pos + 1)
        moved == [ scan.l EXCEPT !.pos = scan.comm_end + 1 ]
    IN  IF scan.l.panicked THEN scan.l
        ELSE IF moved.pos < l.total_len
        THEN [ moved EXCEPT !.grammar = Grammar_Main ]
        ELSE moved

\* the inner loop of the arm Grammar::InlineComment
RECURSIVE inline_comment_scan(_, _)
inline_comment_scan(l, comm_end) ==
    IF comm_end + 1 < l.total_len /\ ~SliceInRange(l.self.src, comm_end, comm_end + 1)
    THEN [ l |-> SlicePanic(l), comm_end |-> comm_end ]
    ELSE IF comm_end + 1 < l.total_len /\ Slice(l.self.src, comm_end, comm_end + 1) # "\n"
    THEN inline_comment_scan(IF Slice(l.self.src, comm_end, comm_end + 1) = "\n"
                             THEN [ l EXCEPT !.col = 0, !.line = @ + 1 ]
                             ELSE [ l EXCEPT !.col = @ + 1 ],
                             comm_end + 1)
    ELSE [ l |-> l, comm_end |-> comm_end ]

\* the arm Grammar::InlineComment
lex_InlineComment(l) ==
    LET scan == inline_comment_scan(l, l.pos + 1)
    IN  IF scan.l.panicked THEN scan.l
        ELSE [ scan.l EXCEPT !.pos = scan.comm_end, !.grammar = Grammar_Main ]

\* the end of the loop's body without the step over a character
lex_advance_without_step(l) ==
    LET counted ==
            IF l.pos + 1 < l.total_len
            THEN IF Slice(l.self.src, l.pos, l.pos + 1) = "\n"
                 THEN [ l EXCEPT !.col = 0, !.line = @ + 1 ]
                 ELSE [ l EXCEPT !.col = @ + 1 ]
            ELSE l
    IN  IF l.pos + 1 < l.total_len /\ ~SliceInRange(l.self.src, l.pos, l.pos + 1)
        THEN SlicePanic(l)
        ELSE counted

\* the end of the loop's body: the line and column count, and the step over a
\* character when the window is empty
lex_advance(l) ==
    LET counted ==
            IF l.pos + 1 < l.total_len
            THEN IF Slice(l.self.src, l.pos, l.pos + 1) = "\n"
                 THEN [ l EXCEPT !.col = 0, !.line = @ + 1 ]
                 ELSE [ l EXCEPT !.col = @ + 1 ]
            ELSE l
    IN  IF l.pos + 1 < l.total_len /\ ~SliceInRange(l.self.src, l.pos, l.pos + 1)
        THEN SlicePanic(l)
        ELSE IF counted.pos >= counted.end
        THEN [ counted EXCEPT !.pos = @ + 1, !.end = l.total_len ]
        ELSE counted

\* one iteration of `while pos < total_len`
lex_iteration(l) ==
    LET matched == IF l.grammar.tag = "Main" THEN lex_Main(l)
                   ELSE IF l.grammar.tag = "Str" THEN lex_Str(l)
                   ELSE IF l.grammar.tag = "Comment" THEN lex_Comment(l)
                   ELSE lex_InlineComment(l)
    IN  IF matched.panicked THEN matched ELSE lex_advance(matched)

\* lex returning the tokens of the loop as they are
lex_return_without_eof(l) ==
    IF l.grammar.tag \in { "Main", "InlineComment" } THEN Result_Ok(l.tokens)
    ELSE IF l.grammar.tag = "Comment" THEN Result_Err(UnclosedComment)
    ELSE Result_Err(UnclosedStr)

\* the match after the loop: what lex returns
lex_return(l) ==
    IF l.grammar.tag \in { "Main", "InlineComment" }
    THEN Result_Ok(Append(l.tokens,
                          Spanned(Span(l.self.file,
                                       Location(l.line, l.col, l.pos),
                                       Location(l.line, l.col, l.pos)),
                                  TokInfo("EOF"))))
    ELSE IF l.grammar.tag = "Comment" THEN Result_Err(UnclosedComment)
    ELSE Result_Err(UnclosedStr)

\* `while pos < total_len { ... }` run until it is left, or until a panic
RECURSIVE lex_loop(_)
lex_loop(l) ==
    IF l.panicked \/ l.pos >= l.total_len THEN l
    ELSE lex_loop(lex_iteration(l))

\* Lexer::lex as one call: what it returns, or the panic that unwinds it
Lexer_lex(self) ==
    LET l == lex_loop(lex_begin(self))
    IN  IF l.panicked THEN [ variant |-> "panic" ] ELSE lex_return(l)

----------------------------------------------------------------------------
(* The error type of the parser (src/rustre-parser/src/lib.rs) *)

\* struct Error; its span is a Range<usize>, start..end
Error(span, msg, cause) == [ span |-> span, msg |-> msg, cause |-> cause ]

\* Error::from_message
Error_from_message(message) == Error([ start |-> 0, end |-> 0 ], message, None)

\* Error::from_unexpected_eof
Error_from_unexpected_eof(position) ==
    Error([ start |-> position, end |-> position ], "unexpected eof", None)

\* Error::from_unexpected_token; {:?} of a Token is the name of its variant
Error_from_unexpected_token(span, expected, found) ==
    Error(span, "expected " \o expected \o ", found " \o found, None)

\* with_context giving the new error the span of from_message
Error_with_context_span_reset(self, ctx) == Error([ start |-> 0, end |-> 0 ], ctx, Some(self))

\* Error::with_context
Error_with_context(self, ctx) == Error(self.span, ctx, Some(self))

----------------------------------------------------------------------------
(* The graph of a node (src/rustre-core/src/node_graph.rs).  A NodeGraph is *)
(* [ graph, bindings ]: graph.nodes is the sequence of the Expression       *)
(* weights of its nodes (the NodeIndex of a node is its place, from 0),     *)
(* graph.edges the sequence of its edges, and bindings the set of the       *)
(* pairs << name, NodeIndex >> of the BiMap.  A BakedExpression is          *)
(* [ variant, operands ], with the field name or value where it has one.    *)

\* BiMap::insert_no_overwrite: Err when the left or the right value is in a
\* pair of the map already
insert_no_overwrite(bindings, left, right) ==
    IF \E pair \in bindings : pair[1] = left \/ pair[2] = right
    THEN [ ok |-> FALSE, bindings |-> bindings ]
    ELSE [ ok |-> TRUE, bindings |-> bindings \cup { << left, right >> } ]

RECURSIVE add_baked_expression(_, _)

\* the closure add_node after graph.graph.add_node(expr) has returned
\* new_node: the loop over the operands, from the operand idx on
RECURSIVE add_operands(_, _, _, _)
add_operands(graph, new_node, operands, idx) ==
    IF idx >= Len(operands)
    THEN [ graph |-> graph, index |-> new_node, panicked |-> FALSE ]
    ELSE LET sub_expr == add_baked_expression(graph, operands[idx + 1])
         IN  IF sub_expr.panicked THEN sub_expr
             ELSE add_operands(
                      [ sub_expr.graph EXCEPT
                          !.graph.edges = Append(@, [ source |-> new_node,
                                                      target |-> sub_expr.index,
                                                      weight |-> idx % 256 ]) ],
                      new_node, operands, idx + 1)

\* NodeGraphBuilder::add_baked_expression: the graph after the call and the
\* NodeIndex returned, or the panic of `expect`
add_baked_expression(graph, baked_expr) ==
    LET new_node == Len(graph.graph.nodes)
        with_node(expr) == [ graph EXCEPT !.graph.nodes = Append(@, expr) ]
        leaf(expr) == [ graph |-> with_node(expr), index |-> new_node, panicked |-> FALSE ]
        variant == baked_expr.variant
        operands == baked_expr.operands
    IN  IF variant = "Error" THEN leaf([ variant |-> "Error" ])
        ELSE IF variant \in { "LiteralInt", "LiteralReal", "LiteralBool" }
        THEN leaf([ variant |-> variant, value |-> baked_expr.value ])
        ELSE IF variant = "Identifier"
        THEN IF \E pair \in graph.bindings : pair[1] = baked_expr.name
             THEN [ graph |-> graph,
                    index |-> (CHOOSE pair \in graph.bindings :
                                   pair[1] = baked_expr.name)[2],
                    panicked |-> FALSE ]
             ELSE [ graph |-> graph, index |-> 0, panicked |-> TRUE ]
        ELSE IF variant = "Parenthesised"
        THEN add_baked_expression(graph, operands[1])
        ELSE IF variant = "Pre"
        THEN add_operands(with_node([ variant |-> "Pre" ]), new_node, operands, 0)
        ELSE IF variant = "Add"
        THEN add_operands(with_node([ variant |-> "Add" ]), new_node, operands, 0)
        ELSE IF variant = "Xor"
        THEN add_operands(with_node([ variant |-> "Xor" ]), new_node, operands, 0)
        ELSE IF variant = "Or"
        THEN add_operands(with_node([ variant |-> "Or" ]), new_node, operands, 0)
        ELSE add_operands(with_node([ variant |-> "Add" ]), new_node, operands, 0)

\* the loop over a left list of two items or more, from the item idx on
RECURSIVE bind_left_list(_, _, _, _)
bind_left_list(graph, left_list, expr, idx) ==
    IF idx >= Len(left_list) THEN [ graph |-> graph, panicked |-> FALSE ]
    ELSE LET tuple_el_node == Len(graph.graph.nodes)
             with_tuple_el ==
                 [ graph EXCEPT
                     !.graph.nodes = Append(@, [ variant |-> "TupleElement",
                                                 value |-> idx ]),
                     !.graph.edges = Append(@, [ source |-> tuple_el_node,
                                                 target |-> expr,
                                                 weight |-> 0 ]) ]
             inserted == insert_no_overwrite(graph.bindings, left_list[idx + 1], expr)
         IN  IF ~inserted.ok THEN [ graph |-> with_tuple_el, panicked |-> TRUE ]
             ELSE bind_left_list([ with_tuple_el EXCEPT !.bindings = inserted.bindings ],
                                 left_list, expr, idx + 1)

\* NodeGraphBuilder::try_add_equals_equation, on an equation whose left
\* items are identifiers and whose right side BakedExpression::bake accepts:
\* the graph after the call and the NodeIndex of the right side, or the
\* panic of `expect` or of `todo!`
try_add_equals_equation(graph, left_list, right) ==
    LET added == add_baked_expression(graph, right)
        expr == added.index
    IN  IF added.panicked THEN [ graph |-> graph, expr |-> expr, panicked |-> TRUE ]
        ELSE IF Len(left_list) = 0
        THEN [ graph |-> added.graph, expr |-> expr, panicked |-> FALSE ]
        ELSE IF Len(left_list) = 1
        THEN LET inserted == insert_no_overwrite(added.graph.bindings, left_list[1], expr)
             IN  [ graph |-> [ added.graph EXCEPT !.bindings = inserted.bindings ],
                   expr |-> expr,
                   panicked |-> ~inserted.ok ]
        ELSE LET bound == bind_left_list(added.graph, left_list, expr, 0)
             IN  [ graph |-> bound.graph, expr |-> expr, panicked |-> bound.panicked ]

----------------------------------------------------------------------------
(* The grammar: a caller that owns a cursor over `tokens` and calls the      *)
(* combinators on it.                                                        *)

VARIABLES
    tokens,   \* the token slice the cursor was made from
    input,    \* the caller's cursor
    pc,       \* "idle", "many0" (in the loop of many0), "returned", "hung"
    last,     \* the combinator expression of the last call
    res,      \* what the last call returned
    loop,     \* the locals of many0 while its loop runs
    lex,      \* the locals of Lexer::lex, and what it returned
    error,    \* the Error a parser has made, and the calls that made it
    node_graph \* the NodeGraph being built, and the last equation added to it

vars == << tokens, input, pc, last, res, loop, lex, error, node_graph >>

\* the variables of the grammar
parser_vars == << tokens, input, pc, last, res, loop, error, node_graph >>

NoParser == [ op |-> "none", kind |-> "", ps |-> <<>> ]

NoResult == [ status |-> "none" ]

NoLoop == [ running |-> FALSE ]

\* no source text is being lexed
NoLexer == [ at |-> "none" ]

\* no Error has been made
NoError == [ at |-> "none" ]

\* no NodeGraph is being built
NoNodeGraph == [ at |-> "none" ]

\* The expressions the grammar is built from
TParsers == { tP(k) : k \in SigKinds }

Atoms == TParsers \cup { fallibleP(p) : p \in TParsers }

Inner ==
    Atoms \cup { many0P(p) : p \in TParsers }
          \cup { nodeP(k, p) : k \in NodeKinds, p \in TParsers }

JoinTuples ==
    { <<a>> : a \in Atoms }
    \cup { <<a, b>> : a \in Inner, b \in Inner }
    \cup { <<a, b, c>> : a \in Atoms, b \in Atoms, c \in Atoms }

SubParsers ==
    Inner \cup { joinP(<<a, b>>) : a \in Atoms, b \in Atoms }
          \cup { many0P(fallibleP(p)) : p \in TParsers }

\* what an old-style parser function may do with the tokens left
OldStyleRuns(cursor) ==
    LET left == cursor.trivia_tokens \o cursor.tokens
    IN  { [ popped |-> n,
            built |-> from_tokens(SubSeq(left, 1, n)).inner,
            errors |-> <<>>,
            result |-> b ] : n \in 0..Len(left), b \in BOOLEAN }

Init ==
    /\ tokens \in TokenStreams
    /\ input = Input_from(tokens)
    /\ pc = "idle"
    /\ last = NoParser
    /\ res = NoResult
    /\ loop = NoLoop
    /\ lex = NoLexer
    /\ error = NoError
    /\ node_graph = NoNodeGraph

\* the call of a combinator returns r, or does not return
Return(p, r) ==
    /\ last' = p
    /\ res' = r
    /\ pc' = IF r.status = "diverge" THEN "hung" ELSE "returned"
    /\ loop' = NoLoop
    /\ UNCHANGED << tokens, input, lex, error, node_graph >>

CallT(kind) ==
    /\ pc = "idle"
    /\ Return(tP(kind), Run(tP(kind), input, <<>>))

CallFallible(p) ==
    /\ pc = "idle"
    /\ Return(fallibleP(p), Run(fallibleP(p), input, <<>>))

CallNode(kind, p) ==
    /\ pc = "idle"
    /\ Return(nodeP(kind, p), Run(nodeP(kind, p), input, <<>>))

CallRootNode(kind, p) ==
    /\ pc = "idle"
    /\ Return([ op |-> "root_node", kind |-> kind, ps |-> <<p>> ],
              Called(<<>>, input, root_node(kind, p, input, <<>>)))

CallJoin(ps) ==
    /\ pc = "idle"
    /\ Return(joinP(ps), Run(joinP(ps), input, <<>>))

\* what many0 returns when its loop is left in state s
Many0Result(s) ==
    Called(<<>>, input,
           IF s.loop = "exit" THEN Ok(s.input, s.first, s.ran) ELSE Diverge(s.ran))

\* many0(p), up to the head of its loop
Many0Begin(p) ==
    /\ pc = "idle"
    /\ LET s == many0_head(p, input, <<>>)
       IN  IF s.loop = "again"
           THEN /\ pc' = "many0"
                /\ last' = many0P(p)
                /\ res' = NoResult
                /\ loop' = [ running |-> TRUE, input |-> s.input, first |-> s.first,
                             ran |-> s.ran, before |-> input, runs |-> 1, stall |-> 0 ]
                /\ UNCHANGED << tokens, input, lex, error, node_graph >>
           ELSE Return(many0P(p), Many0Result(s))

\* one more successful run of the parser in the loop of many0
Many0Iter ==
    /\ pc = "many0"
    /\ LET s == many0_iter(last.ps[1], loop.input, loop.first, loop.ran, <<>>)
       IN  /\ s.loop = "again"
           /\ s.input = loop.input => loop.stall < MaxStall
           /\ loop' = [ running |-> TRUE, input |-> s.input, first |-> s.first,
                        ran |-> s.ran, before |-> loop.input, runs |-> loop.runs + 1,
                        stall |-> IF s.input = loop.input THEN loop.stall + 1 ELSE 0 ]
    /\ UNCHANGED << tokens, input, pc, last, res, lex, error, node_graph >>

\* the parser fails (or does not return): the loop of many0 is left
Many0End ==
    /\ pc = "many0"
    /\ LET s == many0_iter(last.ps[1], loop.input, loop.first, loop.ran, <<>>)
       IN  /\ s.loop # "again"
           /\ Return(last, Many0Result(s))

\* the caller goes on with the cursor it was returned, or with its own
Resume ==
    /\ pc = "returned"
    /\ input' = IF res.status = "ok" THEN res.input ELSE input
    /\ pc' = "idle"
    /\ last' = NoParser
    /\ res' = NoResult
    /\ UNCHANGED << tokens, loop, lex, error, node_graph >>

CallOldStyle(f) ==
    /\ pc = "idle"
    /\ Return([ op |-> "old_style", kind |-> "", ps |-> <<>> ],
              Called(<<>>, input, old_style(f, input)))

Next ==
    \/ \E kind \in SigKinds : CallT(kind)
    \/ \E p \in SubParsers : CallFallible(p)
    \/ \E kind \in NodeKinds, p \in SubParsers : CallNode(kind, p)
    \/ \E p \in SubParsers : CallRootNode(RootKind, p)
    \/ \E ps \in JoinTuples : CallJoin(ps)
    \/ \E p \in SubParsers : Many0Begin(p)
    \/ Many0Iter
    \/ Many0End
    \/ Resume

Spec == Init /\ [][Next]_vars

\* the grammar also uses parsers of the old style, through the adapter
NextAdapter ==
    \/ Next
    \/ \E f \in OldStyleRuns(input) : CallOldStyle(f)

SpecAdapter == Init /\ [][NextAdapter]_vars

\* A caller inside the engine that steps the cursor itself: with next, which
\* panics on a cursor without tokens, and with next_raw, which panics on a
\* cursor without trivia and without tokens.
CursorNext ==
    /\ input.tokens # <<>>
    /\ input' = next(input)
    /\ UNCHANGED << tokens, pc, last, res, loop, lex, error, node_graph >>

CursorNextRaw ==
    /\ input.trivia_tokens # <<>> \/ input.tokens # <<>>
    /\ input' = next_raw(input)
    /\ UNCHANGED << tokens, pc, last, res, loop, lex, error, node_graph >>

NextCursor ==
    \/ CursorNext
    \/ CursorNextRaw

SpecCursor == Init /\ [][NextCursor]_vars

----------------------------------------------------------------------------
(* Lexer::lex as a state machine: one step for each iteration of the scan   *)
(* loop, by the arm of `match grammar` taken, and one for the return.       *)

NoReturn == [ variant |-> "none" ]

\* Lexer::new("main.lus", src).lex() is entered
InitLexer ==
    /\ lex \in { lex_begin(Lexer_new(File, src)) @@ [ at |-> "loop", ret |-> NoReturn ] :
                 src \in Sources }
    /\ tokens = <<>>
    /\ input = Input_from(tokens)
    /\ pc = "idle"
    /\ last = NoParser
    /\ res = NoResult
    /\ loop = NoLoop
    /\ error = NoError
    /\ node_graph = NoNodeGraph

\* the loop's condition holds with `grammar` of the variant tag
InLoop(tag) ==
    /\ lex.at = "loop"
    /\ ~lex.panicked
    /\ lex.pos < lex.total_len
    /\ lex.grammar.tag = tag

\* an iteration of the loop in Grammar::Main
LexMain ==
    /\ InLoop("Main")
    /\ lex' = lex_iteration(lex)
    /\ UNCHANGED parser_vars

\* an iteration of the loop in Grammar::Str
LexStr ==
    /\ InLoop("Str")
    /\ lex' = lex_iteration(lex)
    /\ UNCHANGED parser_vars

\* an iteration of the loop in Grammar::Comment
LexComment ==
    /\ InLoop("Comment")
    /\ lex' = lex_iteration(lex)
    /\ UNCHANGED parser_vars

\* an iteration of the loop in Grammar::InlineComment
LexInlineComment ==
    /\ InLoop("InlineComment")
    /\ lex' = lex_iteration(lex)
    /\ UNCHANGED parser_vars

\* the loop is left and lex returns
LexReturn ==
    /\ lex.at = "loop"
    /\ ~lex.panicked
    /\ lex.pos >= lex.total_len
    /\ lex' = [ lex EXCEPT !.at = "returned", !.ret = lex_return(lex) ]
    /\ UNCHANGED parser_vars

NextLexer ==
    \/ LexMain
    \/ LexStr
    \/ LexComment
    \/ LexInlineComment
    \/ LexReturn

SpecLexer == InitLexer /\ [][NextLexer]_vars

----------------------------------------------------------------------------
(* A parser that makes an Error and the callers that add context to it as   *)
(* it is returned through them.                                             *)

\* no Error yet
InitError ==
    /\ error = NoError
    /\ node_graph = NoNodeGraph
    /\ tokens = <<>>
    /\ input = Input_from(tokens)
    /\ pc = "idle"
    /\ last = NoParser
    /\ res = NoResult
    /\ loop = NoLoop
    /\ lex = NoLexer

\* a parser makes an Error: `first` keeps it, `contexts` the contexts added
ErrorFromMessage ==
    /\ error = NoError
    /\ \E message \in { "unexpected token", "unexpected eof", "parser failed" } :
           LET e == Error_from_message(message)
           IN  error' = [ at |-> "made", err |-> e, first |-> e, contexts |-> <<>> ]
    /\ UNCHANGED << tokens, input, pc, last, res, loop, lex, node_graph >>

ErrorFromUnexpectedEof ==
    /\ error = NoError
    /\ \E position \in 0..MaxLen :
           LET e == Error_from_unexpected_eof(position)
           IN  error' = [ at |-> "made", err |-> e, first |-> e, contexts |-> <<>> ]
    /\ UNCHANGED << tokens, input, pc, last, res, loop, lex, node_graph >>

ErrorFromUnexpectedToken ==
    /\ error = NoError
    /\ \E start \in 0..MaxLen, end \in 0..MaxLen, expected \in SigKinds, found \in SigKinds :
           LET e == Error_from_unexpected_token([ start |-> start, end |-> end ],
                                                expected, found)
           IN  /\ start <= end
               /\ expected # found
               /\ error' = [ at |-> "made", err |-> e, first |-> e, contexts |-> <<>> ]
    /\ UNCHANGED << tokens, input, pc, last, res, loop, lex, node_graph >>

\* a caller wraps the Error it was returned
ErrorWithContext ==
    /\ error.at = "made"
    /\ Len(error.contexts) < MaxContexts
    /\ \E ctx \in { "statement", "expression" } :
           error' = [ error EXCEPT !.err = Error_with_context(@, ctx),
                                   !.contexts = Append(@, ctx) ]
    /\ UNCHANGED << tokens, input, pc, last, res, loop, lex, node_graph >>

NextError ==
    \/ ErrorFromMessage
    \/ ErrorFromUnexpectedEof
    \/ ErrorFromUnexpectedToken
    \/ ErrorWithContext

SpecError == InitError /\ [][NextError]_vars

----------------------------------------------------------------------------
(* NodeGraphBuilder::try_parse_node_graph on a node with the parameter x or *)
(* none, and a body of equations.                                           *)

\* the right sides of the equations: a literal, an identifier, or an
\* operator on literals, identifiers and operators on them
BakedOperands ==
    { [ variant |-> "LiteralBool", value |-> TRUE, operands |-> <<>> ],
      [ variant |-> "Identifier", name |-> "x", operands |-> <<>> ],
      [ variant |-> "Identifier", name |-> "a", operands |-> <<>> ] }

BakedExpressions ==
    BakedOperands
    \cup { [ variant |-> "Error", operands |-> <<>> ] }
    \cup { [ variant |-> v, operands |-> << a >> ] :
             v \in { "Parenthesised", "Pre" }, a \in BakedOperands }
    \cup { [ variant |-> v, operands |-> << a, b >> ] :
             v \in { "Add", "Xor", "Or", "And" }, a \in BakedOperands, b \in BakedOperands }
    \cup { [ variant |-> "And",
             operands |-> << [ variant |-> "Pre", operands |-> << a >> ], b >> ] :
             a \in BakedOperands, b \in BakedOperands }

\* the left sides of the equations: lists of identifiers
LeftLists == { <<>>, << "a" >>, << "b" >>, << "a", "b" >>, << "b", "a" >> }

\* the graph after the loop over the parameters: an Input node for each
InitNodeGraph ==
    /\ node_graph \in
           { [ at |-> "body", equations |-> 0, panicked |-> FALSE,
               graph |-> [ nodes |-> [ i \in 1..Len(params) |-> [ variant |-> "Input" ] ],
                           edges |-> <<>> ],
               bindings |-> { << params[i], i - 1 >> : i \in 1..Len(params) },
               left |-> <<>>, right |-> [ variant |-> "none" ], expr |-> 0,
               before |-> {} ] : params \in { <<>>, << "x" >> } }
    /\ error = NoError
    /\ tokens = <<>>
    /\ input = Input_from(tokens)
    /\ pc = "idle"
    /\ last = NoParser
    /\ res = NoResult
    /\ loop = NoLoop
    /\ lex = NoLexer

\* the loop over the equations of the body: one call of
\* try_add_equals_equation; `left`, `right`, `expr` and `before` keep the
\* equation, the NodeIndex of its right side and the bindings before the call
TryAddEqualsEquation ==
    /\ node_graph.at = "body"
    /\ ~node_graph.panicked
    /\ node_graph.equations < MaxEquations
    /\ \E left_list \in LeftLists, right \in BakedExpressions :
           LET called == try_add_equals_equation(
                             [ graph |-> node_graph.graph,
                               bindings |-> node_graph.bindings ],
                             left_list, right)
           IN  node_graph' =
                   [ at |-> "body",
                     equations |-> node_graph.equations + 1,
                     panicked |-> called.panicked,
                     graph |-> called.graph.graph,
                     bindings |-> called.graph.bindings,
                     left |-> left_list, right |-> right, expr |-> called.expr,
                     before |-> node_graph.bindings ]
    /\ UNCHANGED << tokens, input, pc, last, res, loop, lex, error >>

NextNodeGraph == TryAddEqualsEquation

SpecNodeGraph == InitNodeGraph /\ [][NextNodeGraph]_vars

----------------------------------------------------------------------------
(* What the claims speak of *)

\* the tokens a cursor still holds, in stream order
Remaining(cursor) == cursor.trivia_tokens \o cursor.tokens

\* the leaf tokens of a list of green elements, in tree order
RECURSIVE Leaves(_)
Leaves(elems) ==
    IF elems = <<>> THEN <<>>
    ELSE LET e == Head(elems)
         IN  (IF e.tag = "Token" THEN << <<kind_from_raw(e.kind), e.text>> >>
              ELSE Leaves(e.children)) \o Leaves(Tail(elems))

\* the index of the first token of toks that is not trivia, 0 when there is none
FirstSignificant(toks) ==
    LET sig == { i \in 1..Len(toks) : toks[i][1] \notin TriviaKinds }
    IN  IF sig = {} THEN 0 ELSE CHOOSE i \in sig : \A j \in sig : i <= j

\* the byte length of a run of tokens
RECURSIVE Bytes(_)
Bytes(toks) == IF toks = <<>> THEN 0 ELSE Len(Head(toks)[2]) + Bytes(Tail(toks))

\* the cursor's buffered trivia is all the trivia in front of its tokens
WellSplit(cursor) ==
    /\ \A i \in 1..Len(cursor.trivia_tokens) : cursor.trivia_tokens[i][1] \in TriviaKinds
    /\ cursor.tokens # <<>> => Head(cursor.tokens)[1] \notin TriviaKinds

CoreOps == { "t", "join", "many0", "node", "fallible" }

Returned(op) == pc = "returned" /\ last.op = op

----------------------------------------------------------------------------
\* C1: whenever a parser composed of t, join, many0, node and fallible
\* succeeds, the leaf tokens of its accumulator in order, then the returned
\* cursor's buffered trivia, then its remaining tokens, are exactly the tokens
\* of the cursor it was given (the whole stream for a cursor made by
\* Input::from): no token is dropped, duplicated or reordered.
C1_NoTokenLost ==
    (pc = "returned" /\ last.op \in CoreOps /\ res.status = "ok") =>
        /\ Leaves(res.out.inner) \o Remaining(res.input) = Remaining(input)
        /\ input = Input_from(tokens) =>
               Leaves(res.out.inner) \o Remaining(res.input) = tokens

\* a join that took a significant token with trivia in front of it and left
\* trivia buffered
C1_Witness ==
    /\ Returned("join") /\ res.status = "ok"
    /\ Len(last.ps) = 2
    /\ \E i \in 1..Len(Leaves(res.out.inner)) :
           Leaves(res.out.inner)[i][1] \in TriviaKinds
    /\ res.input.trivia_tokens # <<>>

\* C2: when root_node succeeds on the whole stream after matching every
\* significant token, every token of the stream, the trivia after the last
\* significant token included, is a leaf of the root tree exactly once, in
\* order.
C2_RootTreeLossless ==
    (Returned("root_node") /\ res.status = "ok"
        /\ input = Input_from(tokens) /\ res.input.tokens = <<>>) =>
        Leaves(<< res.out[1].green >>) = tokens

\* C3: every cursor made by Input::from or returned by a successful t, join,
\* many0, fallible, node or old_style holds in trivia_tokens all the trivia in
\* front of `tokens`, and `tokens` is empty or starts with a non-trivia token.
C3_TriviaBuffered ==
    /\ WellSplit(input)
    /\ (pc = "returned" /\ res.status = "ok") => WellSplit(res.input)
    /\ pc = "many0" => WellSplit(loop.input)

\* C4: t(kind) succeeds iff the next significant token has kind `kind`; on
\* success the accumulator is the buffered trivia in order, then the token,
\* with no errors, and the returned cursor is past both with the following
\* trivia run buffered.
C4_TokenMatch ==
    Returned("t") =>
        LET rem == Remaining(input)
            n == FirstSignificant(rem)
        IN  /\ res.status = "ok" <=> (n > 0 /\ rem[n][1] = last.kind)
            /\ res.status = "ok" =>
                   /\ res.out.errors = <<>>
                   /\ \A i \in 1..Len(res.out.inner) : res.out.inner[i].tag = "Token"
                   /\ Leaves(res.out.inner) = SubSeq(rem, 1, n)
                   /\ Remaining(res.input) = SubSeq(rem, n + 1, Len(rem))
                   /\ WellSplit(res.input)
                   /\ res.input.src_pos = input.src_pos + Bytes(SubSeq(rem, 1, n))
                   /\ res.input.trivia_tokens_text_len = Bytes(res.input.trivia_tokens)

\* the first t on a stream that starts with trivia, with trivia after the token
C4_Witness ==
    /\ Returned("t") /\ res.status = "ok"
    /\ input = Input_from(tokens)
    /\ input.trivia_tokens # <<>>
    /\ res.input.trivia_tokens # <<>>

\* C5: a failed t(kind) returns only an error, "unexpected token" when a
\* significant token of another kind is next and "unexpected eof" when no
\* significant token is left, and the caller's cursor is what it was.
C5_FailedTokenState ==
    (Returned("t") /\ res.status = "err") =>
        LET rem == Remaining(input)
            n == FirstSignificant(rem)
        IN  /\ DOMAIN res = { "status", "err", "ran" }
            /\ res.err.variant = "Error"
            /\ n > 0 => rem[n][1] # last.kind /\ res.err.e.msg = "unexpected token"
            /\ n = 0 => res.err.e.msg = "unexpected eof"

\* C5, with the caller's cursor: the state part above in every state, and the
\* call of t and the step after a failed t leave the caller's cursor alone.
C5_FailedToken ==
    /\ []C5_FailedTokenState
    /\ [][ /\ (pc = "idle" /\ pc' = "returned" /\ last'.op = "t") => input' = input
           /\ (Returned("t") /\ res.status = "err") => input' = input ]_vars

\* t(kind) failed at the end of the significant tokens, with trivia buffered
C5_Witness ==
    /\ Returned("t") /\ res.status = "err"
    /\ res.err.e.msg = "unexpected eof"
    /\ input.trivia_tokens # <<>>
    /\ input # Input_from(tokens)

----------------------------------------------------------------------------
(* join and many0 *)

IsDirect(call) == Len(call.at) = 1

\* the calls the last expression made of its own sub-parsers, in order
DirectCalls == SelectSeq(res.ran, IsDirect)

\* the cursor p_j of a join is given when p_1 .. p_(j-1) succeed from cursor c
RECURSIVE CursorBefore(_, _, _)
CursorBefore(ps, j, c) ==
    IF j = 1 THEN c ELSE Run(ps[j - 1], CursorBefore(ps, j - 1, c), <<j - 1>>).input

RECURSIVE Flatten(_)
Flatten(seqs) == IF seqs = <<>> THEN <<>> ELSE Head(seqs) \o Flatten(Tail(seqs))

\* C6: join runs its sub-parsers left to right, each on the cursor the one
\* before returned; when p_i is the first to fail, join returns p_i's failure,
\* runs none of p_(i+1) .. p_n, returns no accumulator, and the caller's cursor
\* is what it was before the join.
C6_JoinAbortsState ==
    Returned("join") =>
        LET ps == last.ps
            calls == DirectCalls
            k == Len(calls)
            sub(j) == Run(ps[j], calls[j].input, <<j>>)
        IN  /\ k \in 1..Len(ps)
            /\ calls[1].input = input
            /\ \A j \in 1..k : calls[j].at = <<j>>
            /\ \A j \in 1..(k - 1) :
                   sub(j).status = "ok" /\ calls[j + 1].input = sub(j).input
            /\ \A i \in 1..Len(res.ran) :
                   res.ran[i].at # <<>> => res.ran[i].at[1] <= k
            /\ res.status = "err" =>
                   /\ sub(k).status = "err"
                   /\ res.err = sub(k).err
                   /\ DOMAIN res = { "status", "err", "ran" }
            /\ res.status = "ok" => k = Len(ps) /\ sub(k).status = "ok"

\* C6, with the caller's cursor: the state part above in every state, and the
\* call of join and the step after a failed join leave the caller's cursor alone.
C6_JoinAborts ==
    /\ []C6_JoinAbortsState
    /\ [][ /\ (pc = "idle" /\ pc' = "returned" /\ last'.op = "join") => input' = input
           /\ (Returned("join") /\ res.status = "err") => input' = input ]_vars

\* a join of three whose third parser failed after the first two took tokens
C6_Witness ==
    /\ Returned("join") /\ res.status = "err"
    /\ Len(last.ps) = 3
    /\ Len(DirectCalls) = 3
    /\ input_len(DirectCalls[3].input) < input_len(input)
    /\ res.err.e.msg = "unexpected token"

\* C7: when every sub-parser of a join succeeds, the accumulator's children
\* are the children of p_1 .. p_n concatenated in that order, its errors are
\* their errors concatenated in that order, and the cursor is the one p_n
\* returned.
C7_JoinConcat ==
    (Returned("join") /\ res.status = "ok") =>
        LET ps == last.ps
            n == Len(ps)
            sub(j) == Run(ps[j], CursorBefore(ps, j, input), <<j>>)
        IN  /\ \A j \in 1..n : sub(j).status = "ok"
            /\ res.out.inner = Flatten([ j \in 1..n |-> sub(j).out.inner ])
            /\ res.out.errors = Flatten([ j \in 1..n |-> sub(j).out.errors ])
            /\ res.input = sub(n).input

\* a join whose first and third parsers recorded different errors around a
\* token taken by the second
C7_Witness ==
    /\ Returned("join") /\ res.status = "ok"
    /\ Len(last.ps) = 3
    /\ Len(res.out.errors) = 2
    /\ res.out.errors[1] # res.out.errors[2]
    /\ input_len(res.input) < input_len(input)

\* how many of the leading significant tokens of toks are identifiers
RECURSIVE LeadingIdents(_)
LeadingIdents(toks) ==
    IF toks = <<>> THEN 0
    ELSE IF Head(toks)[1] \in TriviaKinds THEN LeadingIdents(Tail(toks))
    ELSE IF Head(toks)[1] = "Ident" THEN 1 + LeadingIdents(Tail(toks))
    ELSE 0

\* C8: many0(p) never fails.  When p fails on the cursor given, the result is
\* an empty accumulator and that cursor; otherwise it is the accumulators of
\* the k successful runs of p, concatenated, and the cursor after the k-th
\* run, whatever the failed run k+1 consumed being discarded.  many0(t(Ident))
\* on n leading identifiers takes exactly n and stops before the next token.
C8_Many0Repeats ==
    Returned("many0") =>
        LET p == last.ps[1]
            calls == DirectCalls
            k == Len(calls) - 1
            run(j) == Run(p, calls[j].input, <<1>>)
        IN  /\ res.status = "ok"
            /\ k >= 0
            /\ calls[1].input = input
            /\ \A j \in 1..k :
                   run(j).status = "ok" /\ calls[j + 1].input = run(j).input
            /\ run(k + 1).status = "err"
            /\ res.input = calls[k + 1].input
            /\ res.out.inner = Flatten([ j \in 1..k |-> run(j).out.inner ])
            /\ res.out.errors = Flatten([ j \in 1..k |-> run(j).out.errors ])
            /\ k = 0 => res.input = input /\ res.out = empty
            /\ p = tP("Ident") =>
                   LET n == LeadingIdents(Remaining(input))
                       leaves == Leaves(res.out.inner)
                   IN  /\ k = n
                       /\ Cardinality({ i \in 1..Len(leaves) : leaves[i][1] = "Ident" }) = n
                       /\ res.input.tokens # <<>> => Head(res.input.tokens)[1] # "Ident"

\* many0(t(Ident)) took two identifiers, with trivia, and stopped before a
\* token of another kind
C8_Witness ==
    /\ Returned("many0") /\ res.status = "ok"
    /\ last.ps[1] = tP("Ident")
    /\ Len(DirectCalls) = 3
    /\ res.input.tokens # <<>>

\* C9: many0 notices a successful run of its parser that consumed no token
\* and stops: its loop is never at its head again after such a run.
C9_Many0StopsOnEmptyRun ==
    pc = "many0" => loop.input # loop.before

\* the cursors over the rest of the stream of cursor c
RECURSIVE CursorsFrom(_)
CursorsFrom(c) ==
    {c} \cup (IF c.tokens = <<>> THEN {} ELSE CursorsFrom(next(c)))

\* every call of p returns, and every successful one consumes a token
Progressing(p, c0) ==
    \A c \in CursorsFrom(c0) :
        LET r == Run(p, c, <<1>>)
        IN  /\ r.status # "diverge"
            /\ r.status = "ok" => input_len(r.input) < input_len(c)

\* C10: when every successful call of p consumes at least one token,
\* many0(p) returns after at most as many successful runs of p as the cursor
\* has tokens left, and input_len decreases with each run.
C10_Many0Terminates ==
    /\ (pc = "many0" /\ Progressing(last.ps[1], input)) =>
           /\ input_len(loop.input) < input_len(loop.before)
           /\ loop.runs + input_len(loop.input) <= input_len(input)
           /\ LET s == many0_iter(last.ps[1], loop.input, loop.first, loop.ran, <<>>)
              IN  /\ s.loop \in { "again", "exit" }
                  /\ s.loop = "again" => input_len(s.input) < input_len(loop.input)
    /\ (pc \in { "returned", "hung" } /\ last.op = "many0"
            /\ Progressing(last.ps[1], input)) =>
           /\ pc = "returned"
           /\ Len(DirectCalls) - 1 <= input_len(input)

\* the loop of many0 after as many runs as the cursor had tokens
C10_Witness ==
    /\ pc = "many0"
    /\ Progressing(last.ps[1], input)
    /\ loop.runs = input_len(input)
    /\ loop.runs >= 2

----------------------------------------------------------------------------
\* what the wrapped parser of the combinator just called does on the
\* caller's cursor
Wrapped == Run(last.ps[1], input, <<1>>)

\* C11: fallible_with(p, convert): when p succeeds the result is p's result
\* unchanged; when p fails with a recoverable error e the result is a success
\* whose cursor is the cursor before p was attempted (same src_pos, buffered
\* trivia and tokens) and whose accumulator holds exactly one childless node
\* of the error kind and exactly one error, convert(e).
C11_FallibleRecovers ==
    Returned("fallible") =>
        /\ Wrapped.status = "ok" =>
               /\ res.status = "ok"
               /\ res.input = Wrapped.input
               /\ res.out = Wrapped.out
        /\ (Wrapped.status = "err" /\ Wrapped.err.variant = "Error") =>
               /\ res.status = "ok"
               /\ res.input = input
               /\ Len(res.out.inner) = 1
               /\ res.out.inner[1].tag = "Node"
               /\ kind_from_raw(res.out.inner[1].kind) = get_error_kind
               /\ res.out.inner[1].children = <<>>
               /\ res.out.errors = << into[Wrapped.err.e] >>

\* a fallible parser recovers on a cursor that is past a token and holds
\* buffered trivia
C11_Witness ==
    /\ Returned("fallible")
    /\ Wrapped.status = "err"
    /\ input.src_pos > 0
    /\ input.trivia_tokens # <<>>
    /\ input.tokens # <<>>

\* the kinds of the significant tokens of toks, in order
RECURSIVE SignificantKinds(_)
SignificantKinds(toks) ==
    IF toks = <<>> THEN <<>>
    ELSE (IF Head(toks)[1] \in TriviaKinds THEN <<>> ELSE << Head(toks)[1] >>)
         \o SignificantKinds(Tail(toks))

LetIdentEqual == << tP("Let"), fallibleP(tP("Ident")), tP("Equal") >>

\* C12: join(t(Let), fallible(t(Ident)), t(Equal)) on a stream that starts
\* with Let and whose significant tokens are [Let, Equal] succeeds: its
\* children are the Let token, one error node, then the trivia in between and
\* the Equal token; its error list has one entry; the returned cursor is past
\* Equal.
C12_MissingIdent ==
    (/\ Returned("join") /\ last.ps = LetIdentEqual
     /\ input = Input_from(tokens)
     /\ SignificantKinds(tokens) = << "Let", "Equal" >>
     /\ tokens[1][1] = "Let") =>
        LET n == CHOOSE i \in 1..Len(tokens) : tokens[i][1] = "Equal"
        IN  /\ res.status = "ok"
            /\ res.out.inner =
                   << GreenToken(kind_to_raw("Let"), tokens[1][2]),
                      GreenNode(kind_to_raw(get_error_kind), <<>>) >>
                   \o from_tokens(SubSeq(tokens, 2, n)).inner
            /\ Len(res.out.errors) = 1
            /\ Remaining(res.input) = SubSeq(tokens, n + 1, Len(tokens))
            /\ res.input.src_pos = Bytes(SubSeq(tokens, 1, n))

\* the statement missing its identifier, with trivia between Let and Equal
C12_Witness ==
    /\ Returned("join") /\ last.ps = LetIdentEqual
    /\ input = Input_from(tokens)
    /\ SignificantKinds(tokens) = << "Let", "Equal" >>
    /\ tokens[1][1] = "Let"
    /\ tokens[2][1] \in TriviaKinds
    /\ res.status = "ok"

\* C13: node(kind, p) and root_node(kind, p), when p succeeds, yield exactly
\* one node of kind `kind` whose children are p's children in order, an error
\* list equal to p's and the cursor returned by p; when p fails they fail with
\* p's error and build no node.
C13_NodeWraps ==
    /\ Returned("node") =>
           /\ Wrapped.status = "ok" =>
                  /\ res.status = "ok"
                  /\ res.out.inner = << GreenNode(kind_to_raw(last.kind), Wrapped.out.inner) >>
                  /\ kind_from_raw(res.out.inner[1].kind) = last.kind
                  /\ res.out.errors = Wrapped.out.errors
                  /\ res.input = Wrapped.input
           /\ Wrapped.status = "err" =>
                  /\ DOMAIN res = { "status", "err", "ran" }
                  /\ res.status = "err"
                  /\ res.err = Wrapped.err
    /\ Returned("root_node") =>
           /\ Wrapped.status = "ok" =>
                  /\ res.status = "ok"
                  /\ res.out[1] = new_root(GreenNode(kind_to_raw(last.kind), Wrapped.out.inner))
                  /\ kind_from_raw(res.out[1].green.kind) = last.kind
                  /\ res.out[2] = Wrapped.out.errors
                  /\ res.input = Wrapped.input
           /\ Wrapped.status = "err" =>
                  /\ DOMAIN res = { "status", "err", "ran" }
                  /\ res.status = "err"
                  /\ res.err = Wrapped.err

\* a node made of a join's children, one of them an error node with its error
C13_Witness ==
    /\ Returned("node") /\ res.status = "ok"
    /\ Len(Wrapped.out.inner) >= 2
    /\ Wrapped.out.errors # <<>>
    /\ res.input # input

----------------------------------------------------------------------------
(* The lexer *)

\* lex has returned Ok
LexedOk == lex.at = "returned" /\ lex.ret.variant = "Ok"

\* C14: for every input on which Lexer::lex returns Ok, the token list holds
\* exactly one EOF token and it is the last element; for the empty input the
\* list is exactly [EOF].
C14_OneEOF ==
    LexedOk =>
        LET toks == lex.ret.value
        IN  /\ Len(toks) >= 1
            /\ toks[Len(toks)].item = TokInfo("EOF")
            /\ \A i \in 1..(Len(toks) - 1) : toks[i].item.variant # "EOF"
            /\ lex.self.src = "" => Len(toks) = 1

\* a source of several tokens, a string literal among them, was lexed
C14_Witness ==
    /\ LexedOk
    /\ Len(lex.ret.value) >= 3
    /\ \E i \in 1..Len(lex.ret.value) : lex.ret.value[i].item.variant = "Str"

\* C15: for every input on which Lexer::lex returns Ok, the span of the EOF
\* token is empty (start = end) and its byte offset is the length of the
\* source text.
C15_EOFSpan ==
    LexedOk =>
        LET eof == lex.ret.value[Len(lex.ret.value)]
        IN  /\ eof.span.start = eof.span.end
            /\ eof.span.start.pos = Len(lex.self.src)

TwoCharOperators == { "->", "=>", "<=", "<>", ">=", "..", "**", "<<", ">>" }

\* the text from the scan position to the end of the source
Rest == Slice(lex.self.src, lex.pos, lex.total_len)

\* the scan position is at the start of a two-character operator
AtTwoCharOperator == Len(Rest) >= 2 /\ SubSeq(Rest, 1, 2) \in TwoCharOperators

\* the length of the longest prefix of s that match_tok accepts, 0 when none
LongestAccepted(s) ==
    LET ok == { k \in 1..Len(s) : match_tok(File, 1, 0, 0, SubSeq(s, 1, k)).some }
    IN  IF ok = {} THEN 0 ELSE CHOOSE k \in ok : \A j \in ok : j <= k

\* the window of a scan position that starts a two-character operator holds
\* both characters
C16_Window ==
    (InLoop("Main") /\ AtTwoCharOperator) =>
        lex.end >= lex.pos + 2

\* an iteration in Main at a two-character operator emits, when its window is
\* the operator, the operator's token; and a token emitted at a scan position
\* is the longest prefix of the rest of the input that match_tok accepts
C16_Step ==
    LexMain =>
        /\ AtTwoCharOperator => (lex'.grammar = Grammar_Main /\ ~lex'.panicked)
        /\ (AtTwoCharOperator /\ lex.end = lex.pos + 2) =>
               /\ lex'.tokens # lex.tokens
               /\ lex'.tokens[Len(lex'.tokens)].item = TokInfo(Literals[SubSeq(Rest, 1, 2)])
        /\ lex'.tokens # lex.tokens =>
               LET tok == lex'.tokens[Len(lex'.tokens)]
                   k == LongestAccepted(Rest)
               IN  /\ lex'.tokens = Append(lex.tokens, tok)
                   /\ tok.span.start.pos = lex.pos
                   /\ tok.span.end.pos = lex.pos + k
                   /\ tok.item = match_tok(File, 1, 0, 0, SubSeq(Rest, 1, k)).value.item
                   /\ AtTwoCharOperator => k = 2

\* C16: at the start of one of the two-character operators ->, =>, <=, <>,
\* >=, .., **, <<, >> the lexer emits the single two-character token, never
\* two one-character tokens; the token emitted at a scan position is the
\* longest prefix of the remaining input that match_tok accepts.
C16_LongestMatch == []C16_Window /\ [][C16_Step]_vars

\* a two-character operator was emitted after other text, with text left
C16_Witness ==
    /\ InLoop("Main")
    /\ lex.tokens # <<>>
    /\ LET tok == lex.tokens[Len(lex.tokens)]
       IN  /\ tok.span.start.pos > 0
           /\ tok.span.end.pos = lex.pos
           /\ Slice(lex.self.src, tok.span.start.pos, tok.span.end.pos) \in TwoCharOperators
           /\ tok.item.variant \in { "Arrow", "Lte", "CDots", "CloseStaticPar" }

\* a `"` stands at byte k or later
QuoteFrom(k) ==
    \E i \in k..(lex.total_len - 1) : Slice(lex.self.src, i, i + 1) = "\""

\* the iteration that scans a string literal with no closing quote leaves the
\* loop in Grammar::Str
C17_Step ==
    (LexStr /\ ~QuoteFrom(lex.pos + 1)) =>
        /\ ~lex'.panicked
        /\ lex'.grammar = Grammar_Str
        /\ lex'.pos >= lex'.total_len

\* leaving the loop in Grammar::Str is Err(UnclosedStr), without tokens
C17_Return ==
    (lex.at = "returned" /\ lex.grammar = Grammar_Str) =>
        lex.ret = Result_Err(UnclosedStr)

\* C17: for every input in which a string literal is opened by a `"` that no
\* later `"` closes, the input whose last character is the opening quote
\* included, Lexer::lex returns Err(UnclosedStr) and no token list.
C17_UnclosedStr == []C17_Return /\ [][C17_Step]_vars

\* the byte offsets, after the opener at the scan position, of the closers of
\* the block comment being scanned
Closers ==
    { k \in (lex.pos + 2)..(lex.total_len - 2) :
          Slice(lex.self.src, k, k + 2) = "*" \o lex.grammar.end }

FirstCloser == CHOOSE k \in Closers : \A j \in Closers : k <= j

\* the iteration that scans a block comment leaves the loop in
\* Grammar::Comment when no closer follows the opener, and goes back to Main
\* when one does
C18_Step ==
    LexComment =>
        IF Closers = {}
        THEN lex'.grammar = lex.grammar /\ lex'.pos >= lex'.total_len
        ELSE lex'.grammar = Grammar_Main

\* leaving the loop in Grammar::Comment, and nothing else, is
\* Err(UnclosedComment), without tokens
C18_Return ==
    lex.at = "returned" =>
        (lex.grammar.tag = "Comment" <=> lex.ret = Result_Err(UnclosedComment))

\* C18: for every input that ends inside a block comment (an opener with no
\* later closer of its style) Lexer::lex returns Err(UnclosedComment) and no
\* token list; a closed block comment, its closer being the last two
\* characters of the input or not, does not give this error.
C18_UnclosedComment == []C18_Return /\ [][C18_Step]_vars

\* C19: a block comment opened with /* is closed only by */ and one opened
\* with (* only by *): the iteration that scans it goes over everything up to
\* and with the first closer of its style after the opener, the other style's
\* closers included, and no token is made of that text.
C19_CommentSkipped ==
    [][(LexComment /\ Closers # {}) =>
          /\ lex'.tokens = lex.tokens
          /\ lex'.grammar = Grammar_Main
          /\ lex'.pos = FirstCloser + 2
          /\ lex'.end = lex'.total_len]_vars

\* the byte offset of the newline that ends the line comment at the scan
\* position, the length of the source when it has none
LineEnd ==
    LET nl == { k \in (lex.pos + 2)..(lex.total_len - 1) :
                    Slice(lex.self.src, k, k + 1) = "\n" }
    IN  IF nl = {} THEN lex.total_len ELSE CHOOSE k \in nl : \A j \in nl : k <= j

\* C20: a line comment contributes no token: the iteration that scans it goes
\* over the characters from the `--` to the next newline or the end of input
\* (also when nothing follows the `--`), lexing resumes after them, and a
\* comment ended by the end of input leaves the loop in a state that returns
\* Ok.
C20_LineCommentSkipped ==
    [][LexInlineComment =>
          /\ lex'.tokens = lex.tokens
          /\ lex'.grammar = Grammar_Main
          /\ lex'.pos >= LineEnd
          /\ lex'.pos <= LineEnd + 1
          /\ lex'.pos < lex'.total_len => lex'.end = lex'.total_len]_vars

\* the characters the lexer has no token for and the spec calls whitespace
Whitespace == { " ", "\t", "\r", "\n" }

\* the kinds and values of a token list, without the spans
Items(toks) == [ i \in 1..Len(toks) |-> toks[i].item ]

\* src with the text w put in before the byte at offset p
Inserted(src, p, w) == Slice(src, 0, p) \o w \o Slice(src, p, Len(src))

\* the text has no string and no comment in it
Plain(src) ==
    \A i \in 1..Len(src) :
        /\ SubSeq(src, i, i) # "\""
        /\ i < Len(src) => SubSeq(src, i, i + 1) \notin { "--", "/*", "(*" }

\* the offsets of src where the whitespace goes: the start of the input, its
\* end, and beside a whitespace character that stands outside strings and
\* comments
WhitespaceOffsets(src) ==
    { 0, Len(src) } \cup
    { p \in 0..Len(src) :
        /\ Plain(src)
        /\ \/ p > 0 /\ SubSeq(src, p, p) \in Whitespace
           \/ p < Len(src) /\ SubSeq(src, p + 1, p + 1) \in Whitespace }

\* C21: whitespace (space, tab, CR, LF) emits no token: when lex returns Ok,
\* the same input with one more whitespace character before the first token,
\* after the last token, or beside the whitespace that separates two tokens
\* lexes to the same sequence of token kinds and values.
C21_WhitespaceIgnored ==
    LexedOk =>
        \A p \in WhitespaceOffsets(lex.self.src), w \in Whitespace :
            LET more == Lexer_lex(Lexer_new(File, Inserted(lex.self.src, p, w)))
            IN  /\ more.variant = "Ok"
                /\ Items(more.value) = Items(lex.ret.value)

\* the newlines among the first n bytes of src
NewlinesBefore(src, n) == { i \in 1..n : SubSeq(src, i, i) = "\n" }

\* the offset where the line of the byte at offset n starts
LineStart(src, n) ==
    IF NewlinesBefore(src, n) = {} THEN 0
    ELSE CHOOSE i \in NewlinesBefore(src, n) : \A j \in NewlinesBefore(src, n) : j <= i

\* C22: for every token lex returns before the EOF token, the start line is
\* 1 plus the number of newline characters before the token's start byte
\* offset, and the start column is the number of characters between the last
\* newline before the token (or the start of the input) and the token's start.
C22_LineAndColumn ==
    LexedOk =>
        \A i \in 1..(Len(lex.ret.value) - 1) :
            LET start == lex.ret.value[i].span.start
            IN  /\ start.line = 1 + Cardinality(NewlinesBefore(lex.self.src, start.pos))
                /\ start.col = start.pos - LineStart(lex.self.src, start.pos)

\* src is a keyword with the non-empty run s of letters and digits after it
KeywordThenSuffix(src) ==
    \E k \in Keywords :
        /\ Len(k) < Len(src)
        /\ SubSeq(src, 1, Len(k)) = k
        /\ AllIn(SubSeq(src, Len(k) + 1, Len(src)), AlphaNumerics)

\* C23: a keyword is recognised only as a whole maximal alphanumeric run:
\* for every keyword k and non-empty alphanumeric suffix s such that k+s is
\* not itself a keyword, lexing k+s yields one Ident with the text k+s and
\* then EOF, never the keyword followed by another token.
C23_KeywordWholeRun ==
    (KeywordThenSuffix(lex.self.src) /\ lex.self.src \notin Keywords) =>
        LET r == Lexer_lex(lex.self)
        IN  /\ r.variant = "Ok"
            /\ Items(r.value) = << Ident(lex.self.src), TokInfo("EOF") >>
            /\ LexedOk => lex.ret = r

\* lex has returned one Ident for the keyword `function` with a letter after it
C23_Witness ==
    /\ LexedOk
    /\ lex.self.src = "functione"
    /\ Items(lex.ret.value) = << Ident("functione"), TokInfo("EOF") >>

\* C24: an operator between two unsigned integer literals is its own token
\* with or without whitespace around it: for every operator op of + - * / %
\* and unsigned integers a and b, lexing a, op, b written with no spaces
\* yields [IConst(a), the token of op, IConst(b), EOF].
C24_OperatorBetweenIntegers ==
    \A a \in Operands, b \in Operands, op \in ArithmeticOperators :
        (lex.at = "returned" /\ lex.self.src = a \o op \o b) =>
            /\ lex.ret.variant = "Ok"
            /\ Items(lex.ret.value) = << IConst(DigitsValue(a)), TokInfo(Literals[op]),
                                         IConst(DigitsValue(b)), TokInfo("EOF") >>

\* the offset of the first `"` at offset k or later
FirstQuoteFrom(k) ==
    CHOOSE i \in k..(lex.total_len - 1) :
        /\ Slice(lex.self.src, i, i + 1) = "\""
        /\ \A j \in k..(i - 1) : Slice(lex.self.src, j, j + 1) # "\""

\* C25: for every string literal that a later `"` closes, lex emits exactly
\* one Str token whose text is the characters strictly between the opening
\* `"` and the next `"`, verbatim and without the quotes; newlines and
\* keyword, operator or comment-opener text inside do not end the literal and
\* make no other token, and the scan goes on in Main after the closing `"`.
C25_Step ==
    (LexStr /\ QuoteFrom(lex.pos + 1)) =>
        LET close == FirstQuoteFrom(lex.pos + 1)
        IN  /\ ~lex'.panicked
            /\ Len(lex'.tokens) = Len(lex.tokens) + 1
            /\ SubSeq(lex'.tokens, 1, Len(lex.tokens)) = lex.tokens
            /\ lex'.tokens[Len(lex'.tokens)].item =
                    Str(Slice(lex.self.src, lex.pos + 1, close))
            /\ lex'.grammar = Grammar_Main
            /\ lex'.pos = IF close + 1 < lex.total_len THEN close + 1 ELSE close + 2

C25_StrVerbatim == [][C25_Step]_vars

\* lex has returned one Str whose text is a comment opener and a newline
C25_Witness ==
    /\ LexedOk
    /\ Items(lex.ret.value) = << Str("--\n"), TokInfo("EOF") >>

----------------------------------------------------------------------------
(* The error type *)

\* the errors of the cause chain of e, the outermost first
RECURSIVE CauseChain(_)
CauseChain(e) ==
    IF e.cause.some THEN << e >> \o CauseChain(e.cause.value) ELSE << e >>

\* with_context keeps the span, takes ctx as the message and wraps the error
\* it is called on, unchanged, as the cause
C26_Step ==
    ErrorWithContext =>
        /\ error'.err.span = error.err.span
        /\ error'.err.msg = error'.contexts[Len(error'.contexts)]
        /\ error'.err.cause = Some(error.err)

\* after any number of calls the span is the one of the original error and
\* the chain holds one error for each call, then the original
C26_Chain ==
    error.at = "made" =>
        LET chain == CauseChain(error.err)
        IN  /\ error.err.span = error.first.span
            /\ Len(chain) = Len(error.contexts) + 1
            /\ chain[Len(chain)] = error.first
            /\ \A i \in 1..Len(error.contexts) :
                   chain[i].msg = error.contexts[Len(error.contexts) + 1 - i]

\* C26: Error::with_context(ctx) returns an error whose span is the wrapped
\* error's span, whose message is ctx and whose cause is the wrapped error
\* unchanged; after any number of with_context calls the outermost span is
\* the span of the innermost, original error and the cause chain holds one
\* entry for each call plus the original.
C26_WithContext == []C26_Chain /\ [][C26_Step]_vars

\* an unexpected-token error with a span that is not 0..0 was wrapped twice
C26_Witness ==
    /\ error.at = "made"
    /\ Len(error.contexts) = 2
    /\ error.first.span = [ start |-> 1, end |-> 2 ]
    /\ error.err.cause.value.cause.value = error.first

----------------------------------------------------------------------------
(* The cursor stepped by next and next_raw *)

\* how many tokens of the stream are behind the cursor and its buffered trivia
Stepped == Len(tokens) - Len(input.trivia_tokens) - Len(input.tokens)

\* C27: in every cursor reached from Input::from by any sequence of next and
\* next_raw steps, src_pos is the total byte length of the tokens of the
\* original stream that precede the buffered trivia, and
\* trivia_tokens_text_len is the total byte length of the buffered trivia
\* tokens.
C27_CursorAccounting ==
    /\ Stepped >= 0
    /\ SubSeq(tokens, Stepped + 1, Len(tokens)) = input.trivia_tokens \o input.tokens
    /\ input.src_pos = text_len_sum(SubSeq(tokens, 1, Stepped))
    /\ input.trivia_tokens_text_len = text_len_sum(input.trivia_tokens)

\* the cursor has gone over `let` and `x`, by next or by next_raw, and the
\* whitespace after them is buffered
C27_Witness ==
    /\ tokens = << <<"Let", "let">>, <<"Ident", "x">>, <<"Whitespace", "  ">> >>
    /\ input.src_pos = 4
    /\ input.trivia_tokens = << <<"Whitespace", "  ">> >>
    /\ input.trivia_tokens_text_len = 2

----------------------------------------------------------------------------
(* The lexer, again *)

\* the item is what the text makes: the content of a Str, and for the other
\* variants what match_tok makes of the text
ItemOfText(item, text) ==
    IF item.variant = "Str" THEN item.text = text
    ELSE LET tok == match_tok(File, 1, 0, 0, text)
         IN  tok.some /\ tok.value.item = item

\* C28: for every token lex returns other than EOF, the source text between
\* the start and the end byte offsets of its span is the token's text (for a
\* Str, the content between the quotes), and the byte spans of successive
\* tokens are disjoint and in increasing order.
C28_SpansCoverText ==
    LexedOk =>
        LET toks == lex.ret.value
        IN  /\ \A i \in 1..(Len(toks) - 1) :
                   /\ toks[i].span.start.pos <= toks[i].span.end.pos
                   /\ toks[i].span.end.pos <= Len(lex.self.src)
                   /\ ItemOfText(toks[i].item,
                                 Slice(lex.self.src, toks[i].span.start.pos,
                                       toks[i].span.end.pos))
            /\ \A i \in 1..(Len(toks) - 2) :
                   toks[i].span.end.pos <= toks[i + 1].span.start.pos

\* lex has returned an identifier and a string literal, one after the other
C28_Witness ==
    /\ LexedOk
    /\ lex.self.src = "a\"-\""
    /\ Items(lex.ret.value) = << Ident("a"), Str("-"), TokInfo("EOF") >>

\* the letters of the ASCII alphabet
Letters == UpperChars \cup LowerChars

\* src is one non-empty run of letters with nothing or whitespace on each side
LetterRun(src, from, to) ==
    /\ from < to
    /\ AllIn(Slice(src, from, to), Letters)
    /\ AllIn(Slice(src, 0, from), Whitespace)
    /\ AllIn(Slice(src, to, Len(src)), Whitespace)

\* C29: every non-empty run of letters that is not a keyword and stands alone
\* between whitespace or the boundaries of the input is lexed as exactly one
\* Ident token that carries the run as its text.
C29_LettersAreIdent ==
    \A from \in 0..Len(lex.self.src), to \in 0..Len(lex.self.src) :
        (/\ lex.at = "returned"
         /\ LetterRun(lex.self.src, from, to)
         /\ Slice(lex.self.src, from, to) \notin Keywords) =>
            /\ lex.ret.variant = "Ok"
            /\ Items(lex.ret.value) =
                   << Ident(Slice(lex.self.src, from, to)), TokInfo("EOF") >>

\* the text has no `"` and no opener of a block comment in it
NoStrNoBlockComment(src) ==
    \A i \in 1..Len(src) :
        /\ SubSeq(src, i, i) # "\""
        /\ i < Len(src) => SubSeq(src, i, i + 1) \notin { "/*", "(*" }

\* C30: lex returns Ok for every input that has no `"` and no block-comment
\* opener in it: a character that starts no token is skipped, the scan goes
\* on at the next character, and no error is reported: the call does not
\* panic and what it returns is Ok.
C30_UnmatchedSkipped ==
    NoStrNoBlockComment(lex.self.src) =>
        /\ ~lex.panicked
        /\ lex.at = "returned" => lex.ret.variant = "Ok"

\* an iteration of the scan loop that does not panic
LexIterates ==
    (LexMain \/ LexStr \/ LexComment \/ LexInlineComment) /\ ~lex'.panicked

\* the iteration moves pos forward, or leaves it and shrinks the window
ShrinksOrMoves ==
    \/ lex'.pos > lex.pos
    \/ lex'.pos = lex.pos /\ lex'.end - lex'.pos < lex.end - lex.pos

\* C31 as it is stated: Lexer::lex terminates on every finite input: every
\* iteration of the scan loop either shrinks the candidate window (end - pos)
\* or moves pos forward, and the Main state never tests an empty window.
C31_EveryIterationShrinksOrMoves ==
    [][LexIterates => ShrinksOrMoves]_vars

\* the arm Grammar::Main is entered with a window of one byte or more that
\* ends inside the source
C31_Window ==
    InLoop("Main") => (lex.pos < lex.end /\ lex.end <= lex.total_len)

\* an iteration moves pos forward, or leaves pos and leaves Main for the state
\* of a string or a comment, or stays in Main at pos and shrinks the window
C31_Step ==
    LexIterates =>
        \/ lex'.pos > lex.pos
        \/ /\ lex'.pos = lex.pos
           /\ lex.grammar = Grammar_Main
           /\ lex'.grammar # Grammar_Main
           /\ lex'.end = lex.end
        \/ /\ lex'.pos = lex.pos
           /\ lex'.grammar = lex.grammar
           /\ lex'.end < lex.end

\* C31, amended: Lexer::lex terminates on every finite input: every iteration
\* of the scan loop that does not panic moves pos forward, or switches from
\* Main to the state of a string or a comment with pos and the window as they
\* are, or shrinks the window (end - pos); the iterations in the states of
\* strings and comments always move pos forward, and the Main state never
\* tests an empty window.
C31_Terminates == []C31_Window /\ [][C31_Step]_vars

\* an iteration in Main has just shrunk the window, after one that switched
\* to a line comment and one in the comment that moved pos
C31_Witness ==
    /\ lex.at = "loop"
    /\ lex.self.src = "--\n-a"
    /\ lex.pos = 3
    /\ lex.end = 4
    /\ lex.grammar = Grammar_Main

----------------------------------------------------------------------------
(* The accumulator's errors and error nodes *)

\* for each node of the error kind in a list of green elements, at any depth
\* and in tree order, how many leaf tokens come before it; `before` leaf
\* tokens come before the list
RECURSIVE ErrorNodesAt(_, _)
ErrorNodesAt(elems, before) ==
    IF elems = <<>> THEN <<>>
    ELSE LET e == Head(elems)
             here == IF e.tag = "Node" /\ kind_from_raw(e.kind) = get_error_kind
                     THEN << before >> ELSE <<>>
         IN  here \o ErrorNodesAt(e.children, before)
                  \o ErrorNodesAt(Tail(elems), before + Len(Leaves(<< e >>)))

\* every fallible of the expression p wraps a t: the error of each of its
\* error nodes is then the one t makes where the node stands
RECURSIVE FalliblesWrapT(_)
FalliblesWrapT(p) ==
    /\ p.op = "fallible" => p.ps[1].op = "t"
    /\ \A i \in 1..Len(p.ps) : FalliblesWrapT(p.ps[i])

\* the error t makes on the stream toks with n of its tokens consumed:
\* unexpected token while a significant token is left, unexpected eof after
ErrorAt(toks, n) ==
    into[from_message(IF \E i \in (n + 1)..Len(toks) : ~is_trivia(toks[i][1])
                      THEN "unexpected token" ELSE "unexpected eof")]

\* the accumulator of the parser p on the stream toks has one error for each
\* error node, and the errors are in the order of the nodes
ErrorsMatchNodes(p, children, toks) ==
    LET at == ErrorNodesAt(children.inner, 0)
    IN  /\ Len(at) = Len(children.errors)
        /\ FalliblesWrapT(p) =>
               \A i \in 1..Len(at) : children.errors[i] = ErrorAt(toks, at[i])

\* C32: in every accumulator produced by a successful parser composed of t,
\* join, many0, fallible and node (node never being given the error kind),
\* the number of error-kind nodes in the tree fragments, at any depth, is the
\* length of the error list, and the errors are in the document order of
\* their error nodes (where every fallible wraps a t, the i-th error is the
\* one t makes at the place of the i-th error node).
C32_ErrorsMatchNodes ==
    /\ (pc = "returned" /\ last.op \in CoreOps /\ res.status = "ok") =>
           ErrorsMatchNodes(last, res.out, Remaining(input))
    /\ pc = "many0" => ErrorsMatchNodes(last, loop.first, Remaining(input))

\* a join has returned an accumulator with an unexpected-token error, a token
\* and an unexpected-eof error, and their two error nodes around the token
C32_Witness ==
    /\ Returned("join")
    /\ res.status = "ok"
    /\ res.out.errors = << into[from_message("unexpected token")],
                           into[from_message("unexpected eof")] >>
    /\ ErrorNodesAt(res.out.inner, 0) = << 0, 1 >>

----------------------------------------------------------------------------
(* Claims about the graph of a node *)

\* the names of the identifiers of a baked expression, at any depth
RECURSIVE IdentifiersOf(_)
IdentifiersOf(baked_expr) ==
    IF baked_expr.variant = "Identifier" THEN { baked_expr.name }
    ELSE UNION { IdentifiersOf(baked_expr.operands[i]) :
                     i \in 1..Len(baked_expr.operands) }

\* the names bound by a BiMap
BoundNames(bindings) == { pair[1] : pair \in bindings }

\* an equation has been added whose right side is the variant, and every
\* identifier of the right side was bound, so that add_baked_expression
\* has returned a NodeIndex
AddedRight(variant) ==
    /\ node_graph.at = "body"
    /\ node_graph.equations > 0
    /\ node_graph.right.variant = variant
    /\ IdentifiersOf(node_graph.right) \subseteq BoundNames(node_graph.before)

\* the weights of the edges that leave the node, in the order of the edges
RECURSIVE EdgeWeightsFrom(_, _)
EdgeWeightsFrom(edges, source) ==
    IF edges = <<>> THEN <<>>
    ELSE (IF Head(edges).source = source THEN << Head(edges).weight >> ELSE <<>>)
         \o EdgeWeightsFrom(Tail(edges), source)

\* C33: after add_baked_expression on an operator variant of BakedExpression
\* (Pre, Add, Xor, Or, And), the node it returns carries the operator of
\* the same name, and has one edge for each operand, labelled with the
\* index of the operand, in order.
C33_OperatorOfSameName ==
    \A variant \in { "Pre", "Add", "Xor", "Or", "And" } :
        AddedRight(variant) =>
            /\ node_graph.expr < Len(node_graph.graph.nodes)
            /\ node_graph.graph.nodes[node_graph.expr + 1].variant = variant
            /\ EdgeWeightsFrom(node_graph.graph.edges, node_graph.expr)
                   = [ i \in 1..Len(node_graph.right.operands) |-> i - 1 ]

\* the same for the operators other than And: the node carries the operator
\* of the same name, with its operands in order
C33_OtherOperators ==
    \A variant \in { "Pre", "Add", "Xor", "Or" } :
        AddedRight(variant) =>
            /\ node_graph.expr < Len(node_graph.graph.nodes)
            /\ node_graph.graph.nodes[node_graph.expr + 1].variant = variant
            /\ EdgeWeightsFrom(node_graph.graph.edges, node_graph.expr)
                   = [ i \in 1..Len(node_graph.right.operands) |-> i - 1 ]

\* `a = true and true` has been added: the node of the right side is an Add
C33_AndIsAdd ==
    /\ AddedRight("And")
    /\ node_graph.left = << "a" >>
    /\ node_graph.right.operands[1].variant = "LiteralBool"
    /\ node_graph.right.operands[2].variant = "LiteralBool"
    /\ node_graph.graph.nodes[node_graph.expr + 1].variant = "Add"

\* the items of a sequence
ItemsOf(seq) == { seq[i] : i \in 1..Len(seq) }

\* an equation has been added whose left identifiers were not bound before
\* the call, and whose right side has bound identifiers only
AddedUnboundLeft ==
    /\ node_graph.at = "body"
    /\ node_graph.equations > 0
    /\ node_graph.left # <<>>
    /\ ItemsOf(node_graph.left) \cap BoundNames(node_graph.before) = {}
    /\ IdentifiersOf(node_graph.right) \subseteq BoundNames(node_graph.before)

\* C34: try_add_equals_equation on an equation whose left identifiers are
\* not bound yet, one identifier (the right side may be a bound identifier)
\* or a list of two or more, does not abort, and afterwards every left
\* identifier has a binding in the bindings of the graph.
C34_LeftIdentifiersBound ==
    AddedUnboundLeft =>
        /\ ~node_graph.panicked
        /\ ItemsOf(node_graph.left) \subseteq BoundNames(node_graph.bindings)

\* the same when the right side makes a node of its own (it is not an
\* identifier, in parentheses or not) and the left side is one identifier
C34_OneLeftNewNode ==
    ( /\ AddedUnboundLeft
      /\ Len(node_graph.left) = 1
      /\ IdentifiersOf(node_graph.right) = {} ) =>
        /\ ~node_graph.panicked
        /\ << node_graph.left[1], node_graph.expr >> \in node_graph.bindings

\* `a = x` has been added to the graph of a node with the parameter x: the
\* call has aborted
C34_IdentifierAborts ==
    /\ AddedUnboundLeft
    /\ node_graph.left = << "a" >>
    /\ node_graph.right = [ variant |-> "Identifier", name |-> "x", operands |-> <<>> ]
    /\ node_graph.panicked

\* `a, b = true` has been added: the call has aborted, with a bound and b not
C34_LeftListAborts ==
    /\ AddedUnboundLeft
    /\ node_graph.left = << "a", "b" >>
    /\ node_graph.right.variant = "LiteralBool"
    /\ node_graph.panicked
    /\ BoundNames(node_graph.bindings) = { "a" }

====
